---------------------------- MODULE Spec2Model ----------------------------
(***************************************************************************)
(* Model of the hybrid sentiment engine of huspacy_elemzo.py: the lexical  *)
(* scorer (_negalt_e, _szotari_pontszam), the interpretation of the raw    *)
(* NYTK classifier payload (_feldolgoz_nytk_eredmeny, _modell_elemez), the *)
(* decision cascade (_hibrid_kategoria) and the two entry points           *)
(* FejlettSentimentElemzo.elemez_egyet / elemzes_batch.                    *)
(*                                                                         *)
(* Numbers.  Python floats are modelled as fixed-point integers: a score   *)
(* or a confidence x is the integer x * Egyseg (four decimals, the         *)
(* resolution of the result fields "pontszam" and "hunbert_confidence").   *)
(* Text formatting ({:.3f}, {:.2f}, {:+.2f}) is modelled by what it does:  *)
(* it rounds and produces the decimal string.                              *)
(*                                                                         *)
(* Text.  Strings are kept in ASCII: a Hungarian letter with an accent is  *)
(* written as its base letter ("pozitiv" for the source's category, "jo"   *)
(* for the lemma), one character for one character, so lengths, slices and *)
(* comparisons are those of the source strings.                            *)
(***************************************************************************)
EXTENDS Integers, Sequences, FiniteSets, TLC

VARIABLES
    \* --- harness of _hibrid_kategoria (pure function) ---
    huspacy_pont,     \* argument huspacy_pont, in 1/Egyseg
    modell_kat,       \* argument modell_kat
    modell_conf,      \* argument modell_conf, in 1/Egyseg
    hibrid,           \* what the call returned, or NincsHibrid before the call
    \* --- harness of _szotari_pontszam (pure function) ---
    doc,              \* argument doc: the token view that is scored
    szotari_pont,     \* <<score>> once the call returned, <<>> before
    negalt,           \* <<what _negalt_e returned for each lexicon token>>, <<>> before
    \* --- harness of _feldolgoz_nytk_eredmeny ---
    raw,              \* argument raw: the payload of the classifier for one text
    nytk_eredmeny,    \* <<what the call returned>>, <<>> before
    \* --- process-global state of huspacy_elemzo.py ---
    _nytk_n_classes,  \* the class-count cache (line 137), 0 for None
    \* --- FejlettSentimentElemzo.elemzes_batch ---
    szovegek,         \* argument szovegek
    batch_meret,      \* argument batch_meret
    sentiment,        \* self.sentiment is loaded (FALSE: it is None)
    ures_elem,        \* how the classifier hands back "no result" for a text:
                      \* TRUE as an empty list in its place, FALSE by leaving it out
    pc,               \* position in elemzes_batch
    tisztitott,       \* local tisztitott
    docs,             \* local docs
    chunk_i,          \* loop variable i of line 746
    raw_batch,        \* local raw_batch
    nytk_sor_cache,   \* local nytk_sor_cache; entry k is the one of doc_idx k - 1
    doc_idx,          \* number of rows the loop of line 767 has handled
    eredmenyek,       \* the dicts yielded so far
    elozo,            \* the previous run of the same input: its batch_meret and results
    \* --- harness of _aggregalt_sentiment (pure function) ---
    mondatok,         \* argument mondatok: the sentence judgments
    aggregalt,        \* <<what the call returned>>, <<>> before
    \* --- SentimentGui (gui_app.py) ---
    is_running,       \* self.is_running
    btn_run,          \* state of self.btn_run
    btn_select,       \* state of self.btn_select
    selected_path,    \* self.selected_path is set (FALSE: it is None)
    fuggoseg,         \* the dependency check: "var" until it has run
    szalak            \* the threads started on _run_analysis, in the order of
                      \* their start: the position of each in the function

hibridVars == <<huspacy_pont, modell_kat, modell_conf, hibrid>>

szotarVars == <<doc, szotari_pont, negalt>>

nytkVars == <<raw, nytk_eredmeny>>

batchVars == <<szovegek, batch_meret, sentiment, ures_elem, pc, tisztitott, docs,
               chunk_i, raw_batch, nytk_sor_cache, doc_idx, eredmenyek, elozo>>

aggrVars == <<mondatok, aggregalt>>

guiVars == <<is_running, btn_run, btn_select, selected_path, fuggoseg, szalak>>

vars == <<hibridVars, szotarVars, nytkVars, _nytk_n_classes, batchVars, aggrVars, guiVars>>

(***************************************************************************)
(* Fixed point and text formatting                                         *)
(***************************************************************************)
Egyseg == 100 * 100            \* the integer that stands for 1.0

Nincs == "<nincs>"             \* Python None / "not yet computed"

NincsHibrid == [kat |-> Nincs, megalapozas |-> <<>>]

Abs(x) == IF x < 0 THEN -x ELSE x

Min2(a, b) == IF a <= b THEN a ELSE b

Max2(a, b) == IF a >= b THEN a ELSE b

\* round-half-even of the non-negative integer a to a multiple of lepes,
\* counted in multiples of lepes (what float formatting does with a value
\* that is exactly representable)
Kerekit(a, lepes) ==
    LET q == a \div lepes
        r == a % lepes
    IN  IF 2 * r > lepes THEN q + 1
        ELSE IF 2 * r < lepes THEN q
        ELSE IF q % 2 = 0 THEN q ELSE q + 1

RECURSIVE Hatvany10(_)
Hatvany10(d) == IF d = 0 THEN 1 ELSE 10 * Hatvany10(d - 1)

RECURSIVE NullaKitolt(_, _)
\* the decimal digits of n, left-padded with zeros to d digits
NullaKitolt(n, d) ==
    IF d <= 0 THEN ""
    ELSE NullaKitolt(n \div 10, d - 1) \o ToString(n % 10)

\* f"{x:.<d>f}" for x in 1/Egyseg, d <= 4: sign, integer part, ".", d digits.
\* A negative value that rounds to zero keeps its sign ("-0.000"), as in Python.
Tizedes(x, d) ==
    LET lepes == Egyseg \div Hatvany10(d)
        k     == Kerekit(Abs(x), lepes)
    IN  (IF x < 0 THEN "-" ELSE "")
            \o ToString(k \div Hatvany10(d)) \o "." \o NullaKitolt(k % Hatvany10(d), d)

\* f"{x:+.<d>f}": as Tizedes, with an explicit "+" for a non-negative value
TizedesElojel(x, d) == IF x < 0 THEN Tizedes(x, d) ELSE "+" \o Tizedes(x, d)

\* the value (in 1/Egyseg) that the text Tizedes(x, d) denotes
TizedesErtek(x, d) ==
    LET lepes == Egyseg \div Hatvany10(d)
    IN  (IF x < 0 THEN -1 ELSE 1) * Kerekit(Abs(x), lepes) * lepes

(***************************************************************************)
(* Reading a formatted number back from a text                             *)
(***************************************************************************)
Szamjegy(c) ==
    CASE c = "0" -> 0 [] c = "1" -> 1 [] c = "2" -> 2 [] c = "3" -> 3
      [] c = "4" -> 4 [] c = "5" -> 5 [] c = "6" -> 6 [] c = "7" -> 7
      [] c = "8" -> 8 [] c = "9" -> 9

RECURSIVE SzamErtek(_)
\* the natural number written by the digit string s
SzamErtek(s) ==
    IF Len(s) = 0 THEN 0
    ELSE 10 * SzamErtek(SubSeq(s, 1, Len(s) - 1)) + Szamjegy(SubSeq(s, Len(s), Len(s)))

\* the value, in 1/Egyseg, written by a decimal text such as "-0.300" or "+0.55"
OlvasTizedes(s) ==
    LET elojeles == SubSeq(s, 1, 1) \in {"-", "+"}
        t        == IF elojeles THEN SubSeq(s, 2, Len(s)) ELSE s
        pontHely == CHOOSE i \in 1..Len(t) : SubSeq(t, i, i) = "."
        jegyek   == Len(t) - pontHely
        egesz    == SzamErtek(SubSeq(t, 1, pontHely - 1))
        tort     == SzamErtek(SubSeq(t, pontHely + 1, Len(t)))
        ertek    == (egesz * Hatvany10(jegyek) + tort) * (Egyseg \div Hatvany10(jegyek))
    IN  IF SubSeq(s, 1, 1) = "-" THEN -ertek ELSE ertek

\* the number of digits after the decimal point of a decimal text
TizedesJegyek(s) == Len(s) - (CHOOSE i \in 1..Len(s) : SubSeq(s, i, i) = ".")

(***************************************************************************)
(* Configuration: the decision thresholds (huspacy_elemzo.py 46-50)        *)
(***************************************************************************)
_NYTK_MAGAS_KUSZOOB == 5500

_NYTK_MERESEKELT_KUSZOOB == 5000

_HUSPACY_EROS_KUSZOOB == 2500

_HUSPACY_GYENGE_KUSZOOB == 1000

_HUSPACY_KAT_KUSZOOB == 1000

Kategoriak == {"pozitiv", "negativ", "semleges"}

(***************************************************************************)
(* _hibrid_kategoria: the ordered decision cascade                         *)
(***************************************************************************)
\* mutant: the category boundary left at its earlier value 0.12
HibridHuspacyKatRegi(pont) ==
    IF pont > 1200 THEN "pozitiv"
    ELSE IF pont < -1200 THEN "negativ"
    ELSE "semleges"

\* lines 482-487: the lexical category inside _hibrid_kategoria
HibridHuspacyKat(pont) ==
    IF pont > _HUSPACY_KAT_KUSZOOB THEN "pozitiv"
    ELSE IF pont < -_HUSPACY_KAT_KUSZOOB THEN "negativ"
    ELSE "semleges"

\* The justification f-strings, as the sequence of their literal pieces and
\* formatted fields (the text is their concatenation), in the ASCII spelling
\* of the module ("->" stands for the source's arrow).
Egyezes(kat, pont, conf) ==
    <<"Egyezes: ", kat, " (HuSpaCy: ", Tizedes(pont, 3),
      ", NYTK conf: ", Tizedes(conf, 2), ")">>

NytkMagabiztos(pont, conf) ==
    <<"NYTK magabiztos (", Tizedes(conf, 2), ") dontott. HuSpaCy: ", Tizedes(pont, 3)>>

ErosSzotariJel(pont, kat, conf) ==
    <<"Eros szotari jel (", Tizedes(pont, 3), "). NYTK: ", kat,
      " (", Tizedes(conf, 2), ")">>

NytkMersekeltJel(pont, conf) ==
    <<"NYTK mersekelt jel (", Tizedes(conf, 2), "). HuSpaCy: ", Tizedes(pont, 3)>>

MersekeltSzotariJel(pont, kat, conf) ==
    <<"Mersekelt szotari jel (", Tizedes(pont, 3), "). NYTK: ", kat,
      " (", Tizedes(conf, 2), ")">>

GyengeJelek(pont, kat, conf) ==
    <<"Gyenge/ellentmondo jelek -> semleges (HuSpaCy: ", Tizedes(pont, 3),
      ", NYTK: ", kat, " ", Tizedes(conf, 2), ")">>

\* The mutants of the cascade used by the checks of the claims.
HibridNagyobb(pont, kat, conf) ==
    \* rule 2 with > in place of >=
    LET huspacy_kat == HibridHuspacyKat(pont)
    IN  IF huspacy_kat = kat THEN
            [kat |-> huspacy_kat, megalapozas |-> Egyezes(huspacy_kat, pont, conf)]
        ELSE IF conf > _NYTK_MAGAS_KUSZOOB /\ kat # "semleges" THEN
            [kat |-> kat, megalapozas |-> NytkMagabiztos(pont, conf)]
        ELSE IF Abs(pont) >= _HUSPACY_EROS_KUSZOOB /\ huspacy_kat # "semleges" THEN
            [kat |-> huspacy_kat, megalapozas |-> ErosSzotariJel(pont, kat, conf)]
        ELSE IF conf > _NYTK_MERESEKELT_KUSZOOB /\ kat # "semleges" THEN
            [kat |-> kat, megalapozas |-> NytkMersekeltJel(pont, conf)]
        ELSE IF Abs(pont) > _HUSPACY_GYENGE_KUSZOOB /\ huspacy_kat # "semleges" THEN
            [kat |-> huspacy_kat, megalapozas |-> MersekeltSzotariJel(pont, kat, conf)]
        ELSE
            [kat |-> "semleges", megalapozas |-> GyengeJelek(pont, kat, conf)]

HibridKozosSzoveg(pont, kat, conf) ==
    \* rule 5 reusing the wording of rule 3
    LET huspacy_kat == HibridHuspacyKat(pont)
    IN  IF huspacy_kat = kat THEN
            [kat |-> huspacy_kat, megalapozas |-> Egyezes(huspacy_kat, pont, conf)]
        ELSE IF conf >= _NYTK_MAGAS_KUSZOOB /\ kat # "semleges" THEN
            [kat |-> kat, megalapozas |-> NytkMagabiztos(pont, conf)]
        ELSE IF Abs(pont) >= _HUSPACY_EROS_KUSZOOB /\ huspacy_kat # "semleges" THEN
            [kat |-> huspacy_kat, megalapozas |-> ErosSzotariJel(pont, kat, conf)]
        ELSE IF conf > _NYTK_MERESEKELT_KUSZOOB /\ kat # "semleges" THEN
            [kat |-> kat, megalapozas |-> NytkMersekeltJel(pont, conf)]
        ELSE IF Abs(pont) > _HUSPACY_GYENGE_KUSZOOB /\ huspacy_kat # "semleges" THEN
            [kat |-> huspacy_kat, megalapozas |-> ErosSzotariJel(pont, kat, conf)]
        ELSE
            [kat |-> "semleges", megalapozas |-> GyengeJelek(pont, kat, conf)]

\* mutant: the cascade without its rule of the weak lexical signal
HibridGyengeNelkul(pont, kat, conf) ==
    LET huspacy_kat == HibridHuspacyKat(pont)
    IN  IF huspacy_kat = kat THEN
            [kat |-> huspacy_kat, megalapozas |-> Egyezes(huspacy_kat, pont, conf)]
        ELSE IF conf >= _NYTK_MAGAS_KUSZOOB /\ kat # "semleges" THEN
            [kat |-> kat, megalapozas |-> NytkMagabiztos(pont, conf)]
        ELSE IF Abs(pont) >= _HUSPACY_EROS_KUSZOOB /\ huspacy_kat # "semleges" THEN
            [kat |-> huspacy_kat, megalapozas |-> ErosSzotariJel(pont, kat, conf)]
        ELSE IF conf > _NYTK_MERESEKELT_KUSZOOB /\ kat # "semleges" THEN
            [kat |-> kat, megalapozas |-> NytkMersekeltJel(pont, conf)]
        ELSE
            [kat |-> "semleges", megalapozas |-> GyengeJelek(pont, kat, conf)]

\* lines 465-528: returns (category, justification)
_hibrid_kategoria(pont, kat, conf) ==
    LET huspacy_kat == HibridHuspacyKat(pont)
    IN  \* 1. agreement
        IF huspacy_kat = kat THEN
            [kat |-> huspacy_kat, megalapozas |-> Egyezes(huspacy_kat, pont, conf)]
        \* 2. confident classifier
        ELSE IF conf >= _NYTK_MAGAS_KUSZOOB /\ kat # "semleges" THEN
            [kat |-> kat, megalapozas |-> NytkMagabiztos(pont, conf)]
        \* 3. strong lexical signal
        ELSE IF Abs(pont) >= _HUSPACY_EROS_KUSZOOB /\ huspacy_kat # "semleges" THEN
            [kat |-> huspacy_kat, megalapozas |-> ErosSzotariJel(pont, kat, conf)]
        \* 4. moderate classifier signal
        ELSE IF conf > _NYTK_MERESEKELT_KUSZOOB /\ kat # "semleges" THEN
            [kat |-> kat, megalapozas |-> NytkMersekeltJel(pont, conf)]
        \* 5. weak lexical signal
        ELSE IF Abs(pont) > _HUSPACY_GYENGE_KUSZOOB /\ huspacy_kat # "semleges" THEN
            [kat |-> huspacy_kat, megalapozas |-> MersekeltSzotariJel(pont, kat, conf)]
        \* 6. neutral
        ELSE
            [kat |-> "semleges", megalapozas |-> GyengeJelek(pont, kat, conf)]

(***************************************************************************)
(* Harness of _hibrid_kategoria: the arguments are drawn from the          *)
(* neighbourhoods of the thresholds and of the ends of the ranges.         *)
(***************************************************************************)
Kornyek == 6                   \* half-width of a neighbourhood, in 1/Egyseg

Kozel(S, also, felso) ==
    {v \in also..felso : \E c \in S : Abs(v - c) <= Kornyek}

PontErtekek ==
    Kozel({-Egyseg, -_HUSPACY_EROS_KUSZOOB, -_HUSPACY_KAT_KUSZOOB, 0,
           _HUSPACY_KAT_KUSZOOB, _HUSPACY_EROS_KUSZOOB, Egyseg}, -Egyseg, Egyseg)

ConfErtekek ==
    Kozel({0, _NYTK_MERESEKELT_KUSZOOB, _NYTK_MAGAS_KUSZOOB, Egyseg}, 0, Egyseg)

HibridNyugvo ==
    /\ huspacy_pont = 0
    /\ modell_kat = "semleges"
    /\ modell_conf = 0
    /\ hibrid = NincsHibrid

HibridBemenet ==
    /\ huspacy_pont \in PontErtekek
    /\ modell_kat \in Kategoriak
    /\ modell_conf \in ConfErtekek
    /\ hibrid = NincsHibrid

HibridHivas ==
    /\ hibrid = NincsHibrid
    /\ hibrid' = _hibrid_kategoria(huspacy_pont, modell_kat, modell_conf)
    /\ UNCHANGED <<huspacy_pont, modell_kat, modell_conf>>


(***************************************************************************)
(* The lexicon (huspacy_elemzo.py 58-127).  The four word sets of the      *)
(* source are pairwise disjoint; the model keeps the words of each set     *)
(* that its vocabulary uses.                                               *)
(***************************************************************************)
POZITIV_SZAVAK == {"jo", "kivalo", "hasznos"}

NEGATIV_SZAVAK == {"rossz", "gyenge", "unalmas"}

FOKOZOK == {"nagyon", "igen"}

NEGACIOK == {"nem", "sem", "soha"}

NEGACIO_HATKORE == 5

NAGYBETUK == "ABCDEFGHIJKLMNOPQRSTUVWXYZ"

KISBETUK == "abcdefghijklmnopqrstuvwxyz"

\* the character c with the letters of abc mapped to the same place of masik
Atir(c, abc, masik) ==
    IF \E i \in 1..Len(abc) : SubSeq(abc, i, i) = c
    THEN LET i == CHOOSE k \in 1..Len(abc) : SubSeq(abc, k, k) = c
         IN  SubSeq(masik, i, i)
    ELSE c

RECURSIVE AtirMind(_, _, _)
AtirMind(s, abc, masik) ==
    IF Len(s) = 0 THEN ""
    ELSE Atir(SubSeq(s, 1, 1), abc, masik) \o AtirMind(SubSeq(s, 2, Len(s)), abc, masik)

\* str.lower() and str.upper() on the letters A-Z
Lower(s) == AtirMind(s, NAGYBETUK, KISBETUK)

Upper(s) == AtirMind(s, KISBETUK, NAGYBETUK)

(***************************************************************************)
(* A token view (spaCy Doc): doc.lemma[i] is token.lemma_, doc.head[i] the *)
(* index of token.head (the root is its own head), doc.sent[i] the number  *)
(* of the sentence of the token.  A space token is one whose text is       *)
(* whitespace.                                                             *)
(***************************************************************************)
DocLen(d) == Len(d.lemma)

\* token.lemma_.lower() of the lemmas the token views of the model carry,
\* tabulated
IsmertLemmak ==
    {"jo", "rossz", "nagyon", "Nem", "termek", " ", "ez", "egy", ".", "nem", "Rossz",
     "van", "unalmas"}

LowerTabla == [w \in IsmertLemmak |-> Lower(w)]

Lemma(d, i) ==
    IF d.lemma[i] \in IsmertLemmak THEN LowerTabla[d.lemma[i]] ELSE Lower(d.lemma[i])

Children(d, i) == {j \in 1..DocLen(d) : j # i /\ d.head[j] = i}

IsSpace(d, i) == d.lemma[i] = " "

\* mutant: the look-back window one token short
NegaltRovidAblak(d, i) ==
    \/ \E c \in Children(d, i) : Lemma(d, c) \in NEGACIOK
    \/ Lemma(d, d.head[i]) \in NEGACIOK
    \/ \E j \in Max2(1, i - (NEGACIO_HATKORE - 1))..(i - 1) :
          Lemma(d, j) \in NEGACIOK /\ d.sent[j] = d.sent[i]

\* mutant: the look-back window does not stop at the sentence boundary
NegaltMondatNelkul(d, i) ==
    \/ \E c \in Children(d, i) : Lemma(d, c) \in NEGACIOK
    \/ Lemma(d, d.head[i]) \in NEGACIOK
    \/ \E j \in Max2(1, i - NEGACIO_HATKORE)..(i - 1) : Lemma(d, j) \in NEGACIOK

\* lines 325-344
_negalt_e(d, i) ==
    \/ \E c \in Children(d, i) : Lemma(d, c) \in NEGACIOK
    \/ Lemma(d, d.head[i]) \in NEGACIOK
    \/ \E j \in Max2(1, i - NEGACIO_HATKORE)..(i - 1) :
          Lemma(d, j) \in NEGACIOK /\ d.sent[j] = d.sent[i]

\* mutant: only the children of the token can intensify it
SzorzoCsakGyerek(d, i) ==
    IF \E c \in Children(d, i) : Lemma(d, c) \in FOKOZOK THEN 14 ELSE 10

\* lines 368-372: the multiplier, in tenths
Szorzo(d, i) ==
    LET fokozott == \/ \E c \in Children(d, i) : Lemma(d, c) \in FOKOZOK
                    \/ Lemma(d, d.head[i]) \in FOKOZOK
    IN  IF fokozott THEN 14 ELSE 10

\* lines 362-381 with the two lexicon sets as parameters: what token i adds
\* to pont, in hundredths; the positive branch is tested first (if / elif)
Pontoz(d, i, pozitiv, negativ) ==
    LET lemma == Lemma(d, i)
    IN  IF lemma \notin pozitiv /\ lemma \notin negativ THEN 0
        ELSE IF lemma \in pozitiv
             THEN (IF _negalt_e(d, i) THEN -5 ELSE 7) * Szorzo(d, i)
             ELSE (IF _negalt_e(d, i) THEN 4 ELSE -8) * Szorzo(d, i)

\* mutant: the negation of a positive word is ignored
HozzajarulasNegacioNelkul(d, i) ==
    LET lemma == Lemma(d, i)
    IN  IF lemma \in POZITIV_SZAVAK THEN 7 * Szorzo(d, i)
        ELSE IF lemma \in NEGATIV_SZAVAK
             THEN (IF _negalt_e(d, i) THEN 4 ELSE -8) * Szorzo(d, i)
        ELSE 0

\* mutant: a negated word weighs as much as a genuine word of the other
\* polarity
HozzajarulasSzimmetrikus(d, i) ==
    LET lemma == Lemma(d, i)
    IN  IF lemma \in POZITIV_SZAVAK
        THEN (IF _negalt_e(d, i) THEN -8 ELSE 7) * Szorzo(d, i)
        ELSE IF lemma \in NEGATIV_SZAVAK
             THEN (IF _negalt_e(d, i) THEN 7 ELSE -8) * Szorzo(d, i)
        ELSE 0

\* lines 362-381: what token i adds to pont, in hundredths
Hozzajarulas(d, i) == Pontoz(d, i, POZITIV_SZAVAK, NEGATIV_SZAVAK)

RECURSIVE PontOsszeg(_, _)
\* lines 359-381: pont after the first k tokens, in hundredths
PontOsszeg(d, k) ==
    IF k = 0 THEN 0 ELSE PontOsszeg(d, k - 1) + Hozzajarulas(d, k)

\* line 384
TokenSzam(d) == Max2(Cardinality({i \in 1..DocLen(d) : ~IsSpace(d, i)}), 1)

RECURSIVE EgeszGyok(_, _, _, _)
\* the largest r in also..felso with r * r * n <= a * a (0 <= a, 1 <= n)
EgeszGyok(a, n, also, felso) ==
    IF also >= felso THEN also
    ELSE LET kozep == (also + felso + 1) \div 2
         IN  IF kozep * kozep <= (a * a) \div n
             THEN EgeszGyok(a, n, kozep, felso)
             ELSE EgeszGyok(a, n, also, kozep - 1)

\* lines 385-386 on the sum pont (hundredths) and the squared norm n:
\* max(-1.0, min(1.0, pont / norm * 1.8)), in 1/Egyseg, cut to four decimals.
\* |pont * 1.8 / sqrt(n)| >= 1 iff (18 * pont)^2 >= 10^6 * n.
Normalizal(pont, n) ==
    LET elojel == IF pont < 0 THEN -1 ELSE 1
        a      == 18 * Abs(pont)
    IN  IF a * a >= 1000000 * n THEN elojel * Egyseg
        ELSE elojel * EgeszGyok(10 * a, n, 0, Egyseg)

\* mutant: the result returned without the clamp to [-1, 1]
SzotariPontszamVagasNelkul(d) ==
    LET pont == PontOsszeg(d, DocLen(d))
        n    == Max2(TokenSzam(d), 1)
    IN  (IF pont < 0 THEN -1 ELSE 1) * 10 * EgeszGyok(18 * Abs(pont), n, 0, Egyseg)

\* mutant: the token count taken as it is, with neither floor
NevezoPadloNelkul(d) == Cardinality({i \in 1..DocLen(d) : ~IsSpace(d, i)})

\* lines 384-385: norm = max(sqrt(token_szam), 1.0), as its square
\* max(token_szam, 1)
Nevezo2(d) == Max2(TokenSzam(d), 1)

\* lines 351-386
_szotari_pontszam(d) ==
    Normalizal(PontOsszeg(d, DocLen(d)), Nevezo2(d))

(***************************************************************************)
(* Harness of _szotari_pontszam: every token view of up to MaxToken tokens *)
(* over the vocabulary, with every dependency forest that has one root per *)
(* sentence and every split into consecutive sentences.                    *)
(***************************************************************************)
MaxToken == 3

Szokincs == {"jo", "rossz", "nagyon", "Nem", "termek", " "}

\* every token reaches the root of its sentence, heads stay in the sentence
RECURSIVE Os(_, _, _)
Os(head, i, k) == IF k = 0 THEN i ELSE Os(head, head[i], k - 1)

JoFa(head, sent) ==
    LET n == Len(head)
    IN  /\ \A i \in 1..n : sent[head[i]] = sent[i]
        /\ \A i \in 1..n : LET r == Os(head, i, n) IN head[r] = r
        /\ \A i, j \in 1..n :
              (head[i] = i /\ head[j] = j /\ sent[i] = sent[j]) => i = j

JoMondatok(sent) ==
    LET n == Len(sent)
    IN  /\ n > 0 => sent[1] = 1
        /\ \A i \in 1..(n - 1) : sent[i + 1] \in {sent[i], sent[i] + 1}

\* the <<head, sent>> pairs of n tokens: dependency forests and sentence splits
Szerkezetek(n) ==
    {hs \in [1..n -> 1..n] \X [1..n -> 1..n] : JoMondatok(hs[2]) /\ JoFa(hs[1], hs[2])}

UresDoc == [lemma |-> <<>>, head |-> <<>>, sent |-> <<>>]   \* idle value of doc

SzotarBemenet ==
    /\ \E n \in 0..MaxToken : \E hs \in Szerkezetek(n) : \E l \in [1..n -> Szokincs] :
          doc = [lemma |-> l, head |-> hs[1], sent |-> hs[2]]
    /\ szotari_pont = <<>>
    /\ negalt = <<>>

SzotarHivas ==
    /\ szotari_pont = <<>>
    /\ szotari_pont' = <<_szotari_pontszam(doc)>>
    /\ UNCHANGED <<doc, negalt>>

SzotarNyugvo == doc = UresDoc /\ szotari_pont = <<>> /\ negalt = <<>>

(***************************************************************************)
(* Harness of _negalt_e: token views of up to MaxHossz tokens, long enough *)
(* for the look-back window, made of negators and positive words, in one   *)
(* or two sentences, each sentence parsed as a chain or as a star.  The    *)
(* call is applied to the tokens _szotari_pontszam applies it to (line     *)
(* 366): those with a lemma in a lexicon set.                              *)
(***************************************************************************)
MaxHossz == 7

AblakSzokincs == {"Nem", "jo"}

Fak == {"lanc", "vissza", "elso", "utolso"}

\* n tokens, the first hatar of them the first sentence, the rest the second
AblakSent(n, hatar) == [i \in 1..n |-> IF i <= hatar THEN 1 ELSE 2]

\* the heads: each token hangs on the one before it, on the one after it, on
\* the first or on the last token of its sentence; the root is its own head
AblakHead(n, hatar, fa) ==
    [i \in 1..n |->
        LET a == IF i <= hatar THEN 1 ELSE hatar + 1
            b == IF i <= hatar THEN hatar ELSE n
        IN  CASE fa = "lanc"   -> IF i = a THEN i ELSE i - 1
              [] fa = "vissza" -> IF i = b THEN i ELSE i + 1
              [] fa = "elso"   -> a
              [] OTHER         -> b]

NegaltBemenet ==
    /\ \E n \in 1..MaxHossz : \E hatar \in 1..n : \E fa \in Fak :
          \E l \in [1..n -> AblakSzokincs] :
              doc = [lemma |-> l, head |-> AblakHead(n, hatar, fa),
                     sent |-> AblakSent(n, hatar)]
    /\ szotari_pont = <<>>
    /\ negalt = <<>>

\* the tokens the scorer asks _negalt_e about
Kerdezettek(d) ==
    {i \in 1..DocLen(d) : Lemma(d, i) \in POZITIV_SZAVAK \cup NEGATIV_SZAVAK}

NegaltHivas ==
    /\ negalt = <<>>
    /\ negalt' = <<[i \in Kerdezettek(doc) |-> _negalt_e(doc, i)]>>
    /\ UNCHANGED <<doc, szotari_pont>>

(***************************************************************************)
(* The raw payload of the classifier for one text.                         *)
(*   alak = "None" : no payload (Python None)                              *)
(*   alak = "dict" : one {"label", "score"} dict (elemek has one item)     *)
(*   alak = "list" : a list of such dicts (top_k=None), possibly empty     *)
(*   alak = "beagyazott" : a list whose one item is itself a list          *)
(* An item is [label, score, kulcsok]; kulcsok is the set of keys the dict *)
(* really has, so an item without "label" or "score" raises KeyError.      *)
(***************************************************************************)
Elem(label, score) == [label |-> label, score |-> score, kulcsok |-> {"label", "score"}]

RawNone == [alak |-> "None", elemek |-> <<>>]

RawDict(e) == [alak |-> "dict", elemek |-> <<e>>]

RawList(es) == [alak |-> "list", elemek |-> es]

Tartalmaz(s, minta) ==
    \E i \in 1..(Len(s) - Len(minta) + 1) : SubSeq(s, i, i + Len(minta) - 1) = minta

RECURSIVE Replace(_, _)
\* str.replace(minta, ""): every occurrence of minta removed, left to right
Replace(s, minta) ==
    IF Len(s) < Len(minta) THEN s
    ELSE IF SubSeq(s, 1, Len(minta)) = minta
         THEN Replace(SubSeq(s, Len(minta) + 1, Len(s)), minta)
         ELSE SubSeq(s, 1, 1) \o Replace(SubSeq(s, 2, Len(s)), minta)

CsupaSzamjegy(s) ==
    Len(s) > 0 /\ \A i \in 1..Len(s) : Tartalmaz("0123456789", SubSeq(s, i, i))

\* int(s) succeeds: an optional sign and decimal digits (the labels of the
\* model hold no blanks or underscores, which int() would also accept)
EgeszSzoveg(s) ==
    IF Len(s) > 0 /\ SubSeq(s, 1, 1) \in {"-", "+"}
    THEN CsupaSzamjegy(SubSeq(s, 2, Len(s)))
    ELSE CsupaSzamjegy(s)

\* int(s) for such a text
EgeszErtek(s) ==
    IF SubSeq(s, 1, 1) = "-" THEN -SzamErtek(SubSeq(s, 2, Len(s)))
    ELSE IF SubSeq(s, 1, 1) = "+" THEN SzamErtek(SubSeq(s, 2, Len(s)))
    ELSE SzamErtek(s)

RECURSIVE Osszeg(_, _)
\* the sum of f over the finite set S
Osszeg(f, S) ==
    IF S = {} THEN 0
    ELSE LET x == CHOOSE y \in S : TRUE IN f[x] + Osszeg(f, S \ {x})

\* the dict built from a list of (key, value) in order: the last value wins
UtolsoErtek(kulcsok, ertekek, k) ==
    LET i == CHOOSE j \in 1..Len(kulcsok) :
                 kulcsok[j] = k /\ \A m \in (j + 1)..Len(kulcsok) : kulcsok[m] # k
    IN  ertekek[i]

MaxOsztaly == 5     \* ordinal payloads have 1..MaxOsztaly classes

Racs == 2           \* scores are the multiples of 1/Racs in [0, 1]

\* the labels of the explicit-label payloads; "positive" comes twice in
\* different case, so the later item overwrites the earlier (line 236)
ExplicitSor == <<"POSITIVE", "negative", "Neutral", "positive">>

ExplicitCimkek == {ExplicitSor[k] : k \in 1..Len(ExplicitSor)} \cup {"LABEL_1", "egyeb"}

\* every label a payload of the model carries
MindenCimke ==
    ExplicitCimkek \cup {"NEGATIVE"} \cup {"LABEL_" \o ToString(k) : k \in 0..MaxOsztaly}

\* r["label"].upper() and r["label"].upper().replace("LABEL_", ""), tabulated
UpperTabla == [c \in MindenCimke |-> Upper(c)]

SzamCimkeTabla == [c \in MindenCimke |-> Replace(Upper(c), "LABEL_")]

POZ_JELEK == {"POSITIV", "POSITIVE", "POS", "POZIT"}

NEG_JELEK == {"NEGATIV", "NEGATIVE", "NEG"}

NEU_JELEK == {"NEUTRAL", "NEU", "SEMLEGES"}

\* mutant: the markers are looked for in the labels as they are written
JelTomegKisNagy(elemek, jelek) ==
    LET cimkek  == [i \in 1..Len(elemek) |-> elemek[i].label]
        pontok  == [i \in 1..Len(elemek) |-> elemek[i].score]
        kulcsok == {cimkek[i] : i \in 1..Len(elemek)}
        talalt  == {k \in kulcsok : \E j \in jelek : Tartalmaz(k, j)}
    IN  Osszeg([k \in talalt |-> UtolsoErtek(cimkek, pontok, k)], talalt)

\* lines 239-244: the mass of the labels that contain one of the markers
JelTomeg(elemek, jelek) ==
    LET cimkek  == [i \in 1..Len(elemek) |-> UpperTabla[elemek[i].label]]
        pontok  == [i \in 1..Len(elemek) |-> elemek[i].score]
        kulcsok == {cimkek[i] : i \in 1..Len(elemek)}
        talalt  == {k \in kulcsok : \E j \in jelek : Tartalmaz(k, j)}
    IN  Osszeg([k \in talalt |-> UtolsoErtek(cimkek, pontok, k)], talalt)

\* lines 257-263: the dict numeric, as [kulcsok, ertek]
Numeric(elemek) ==
    LET cimkek == [i \in 1..Len(elemek) |-> SzamCimkeTabla[elemek[i].label]]
        jok    == {i \in 1..Len(elemek) : EgeszSzoveg(cimkek[i])}
        szam   == [i \in 1..Len(elemek) |->
                      IF i \in jok THEN EgeszErtek(cimkek[i]) ELSE 0]
        utolso(k) == CHOOSE i \in jok : szam[i] = k /\ \A m \in jok : szam[m] = k => m <= i
        kulcsok == {szam[i] : i \in jok}
    IN  [kulcsok |-> kulcsok,
         ertek   |-> [k \in kulcsok |-> elemek[utolso(k)].score]]

\* numeric.get(k, 0.0)
NumGet(num, k) == IF k \in num.kulcsok THEN num.ertek[k] ELSE 0

HalmazMax(S) == CHOOSE x \in S : \A y \in S : y <= x

Alap == [hiba |-> FALSE, kat |-> "semleges", conf |-> Egyseg \div 2]

Jel(kat, conf) == [hiba |-> FALSE, kat |-> kat, conf |-> conf]

Kivetel == [hiba |-> TRUE, kat |-> Nincs, conf |-> 0]

\* mutant: the neutral bucket is returned with its mass also when it is 0
LegjobbNullaval(poz, neg, neu) ==
    LET best == Max2(poz, Max2(neg, neu))
    IN  IF best = poz /\ poz > 0 THEN Jel("pozitiv", poz)
        ELSE IF best = neg /\ neg > 0 THEN Jel("negativ", neg)
        ELSE Jel("semleges", neu)

\* lines 248-254 and 295-301: the bucket that wins, with its mass
Legjobb(poz, neg, neu) ==
    LET best == Max2(poz, Max2(neg, neu))
    IN  IF best = poz /\ poz > 0 THEN Jel("pozitiv", poz)
        ELSE IF best = neg /\ neg > 0 THEN Jel("negativ", neg)
        ELSE Jel("semleges", IF neu > 0 THEN neu ELSE Egyseg \div 2)

\* mutant: the class count cached by an earlier call is used in place of
\* the class count of the payload
OrdinalisGyorsitott(elemek) ==
    LET num       == Numeric(elemek)
        n_classes == IF _nytk_n_classes # 0 THEN _nytk_n_classes
                     ELSE Cardinality(num.kulcsok)
    IN  IF num.kulcsok = {} THEN Alap
        ELSE IF n_classes = 3 THEN
            Legjobb(NumGet(num, 2), NumGet(num, 0), NumGet(num, 1))
        ELSE Legjobb(NumGet(num, 3) + NumGet(num, 4),
                     NumGet(num, 0) + NumGet(num, 1),
                     NumGet(num, 2))

\* lines 288-293: the indices of the three buckets when the class count is
\* neither 3 nor 5.  low = max_label / 3, high = max_label * 2 / 3:
\* k <= low iff 3k <= max_label, k >= high iff 3k >= 2 max_label
HarmadNeg(kulcsok) == {k \in kulcsok : 3 * k <= HalmazMax(kulcsok)}

HarmadNeu(kulcsok) ==
    {k \in kulcsok : 3 * k > HalmazMax(kulcsok) /\ 3 * k < 2 * HalmazMax(kulcsok)}

HarmadPoz(kulcsok) == {k \in kulcsok : 3 * k >= 2 * HalmazMax(kulcsok)}

\* mutant: the mapping of three classes used for every class count
OrdinalisVodrokHarom(elemek) ==
    LET num == Numeric(elemek)
    IN  [poz |-> NumGet(num, 2), neg |-> NumGet(num, 0), neu |-> NumGet(num, 1)]

\* lines 268-293: neg_s, neu_s, poz_s from the dict numeric
Vodrok(num) ==
    IF Cardinality(num.kulcsok) = 3 THEN
        [poz |-> NumGet(num, 2), neg |-> NumGet(num, 0), neu |-> NumGet(num, 1)]
    ELSE IF Cardinality(num.kulcsok) = 5 THEN
        [poz |-> NumGet(num, 3) + NumGet(num, 4),
         neg |-> NumGet(num, 0) + NumGet(num, 1),
         neu |-> NumGet(num, 2)]
    ELSE
        [poz |-> Osszeg(num.ertek, HarmadPoz(num.kulcsok)),
         neg |-> Osszeg(num.ertek, HarmadNeg(num.kulcsok)),
         neu |-> Osszeg(num.ertek, HarmadNeu(num.kulcsok))]

\* lines 274-293: neg_s, neu_s, poz_s of a payload with an integer label
OrdinalisVodrok(elemek) == Vodrok(Numeric(elemek))

\* lines 295-301 on the three masses
LegjobbVodor(v) == Legjobb(v.poz, v.neg, v.neu)

\* lines 256-301: the labels read as ordinal indices
Ordinalis(elemek) ==
    IF Numeric(elemek).kulcsok = {} THEN Alap
    ELSE LegjobbVodor(OrdinalisVodrok(elemek))

\* mutant: the winning mass scaled to a percentage
FeldolgozSzazalek(r) ==
    LET elemek == r.elemek
        teljes == \A i \in 1..Len(elemek) : elemek[i].kulcsok = {"label", "score"}
        poz    == JelTomeg(elemek, POZ_JELEK)
        neg_e  == JelTomeg(elemek, NEG_JELEK)
        neu    == JelTomeg(elemek, NEU_JELEK)
        ki     == IF poz + neg_e + neu > 500 THEN Legjobb(poz, neg_e, neu)
                  ELSE Ordinalis(elemek)
    IN  IF r.alak = "beagyazott" THEN Kivetel
        ELSE IF r.alak = "None" \/ Len(elemek) = 0 THEN Alap
        ELSE IF ~teljes THEN Kivetel
        ELSE [ki EXCEPT !.conf = 100 * @]

\* lines 212-301: returns (category, confidence), or raises KeyError
_feldolgoz_nytk_eredmeny(r) ==
    LET elemek == r.elemek    \* a dict is wrapped into a list (230-231)
        teljes == \A i \in 1..Len(elemek) : elemek[i].kulcsok = {"label", "score"}
        poz    == JelTomeg(elemek, POZ_JELEK)
        neg_e  == JelTomeg(elemek, NEG_JELEK)
        neu    == JelTomeg(elemek, NEU_JELEK)
    IN  \* r["label"] on an item that is a list raises TypeError (line 236)
        IF r.alak = "beagyazott" THEN Kivetel
        ELSE IF r.alak = "None" \/ Len(elemek) = 0 THEN Alap
        ELSE IF ~teljes THEN Kivetel
        ELSE IF poz + neg_e + neu > 500 THEN Legjobb(poz, neg_e, neu)
        ELSE Ordinalis(elemek)

\* lines 224, 268-272: the process-global class count after the call
NClassesUtan(r, regi) ==
    LET elemek == r.elemek
        teljes == \A i \in 1..Len(elemek) : elemek[i].kulcsok = {"label", "score"}
        elert  == /\ r.alak \notin {"None", "beagyazott"} /\ Len(elemek) > 0 /\ teljes
                  /\ JelTomeg(elemek, POZ_JELEK) + JelTomeg(elemek, NEG_JELEK)
                        + JelTomeg(elemek, NEU_JELEK) <= 500
                  /\ Numeric(elemek).kulcsok # {}
    IN  IF elert /\ regi = 0 THEN Cardinality(Numeric(elemek).kulcsok) ELSE regi

(***************************************************************************)
(* The same score -> category step at the other places of the source       *)
(***************************************************************************)
\* lines 677-682: elemez_egyet, field "kategoria"
EgyetHuspacyKat(pont) ==
    IF pont > _HUSPACY_KAT_KUSZOOB THEN "pozitiv"
    ELSE IF pont < -_HUSPACY_KAT_KUSZOOB THEN "negativ"
    ELSE "semleges"

\* mutant: the batch path with a closed boundary
BatchHuspacyKatZart(pont) ==
    IF pont >= _HUSPACY_KAT_KUSZOOB THEN "pozitiv"
    ELSE IF pont <= -_HUSPACY_KAT_KUSZOOB THEN "negativ"
    ELSE "semleges"

\* lines 775-780: elemzes_batch, field "kategoria"
BatchHuspacyKat(pont) ==
    IF pont > _HUSPACY_KAT_KUSZOOB THEN "pozitiv"
    ELSE IF pont < -_HUSPACY_KAT_KUSZOOB THEN "negativ"
    ELSE "semleges"

\* lines 608-613: _mondatszintu_osszefoglalo_doc, the tag of a sentence
OsszefoglaloKat(pont) ==
    IF pont > _HUSPACY_KAT_KUSZOOB THEN "poz"
    ELSE IF pont < -_HUSPACY_KAT_KUSZOOB THEN "neg"
    ELSE "sem"

(***************************************************************************)
(* _tisztit (lines 535-539) on a text                                      *)
(***************************************************************************)
Feher(c) == c \in {" ", "\t", "\n"}

\* the least i >= honnan with s[i] = c, or 0
Keres(s, c, honnan) ==
    IF \E i \in honnan..Len(s) : SubSeq(s, i, i) = c
    THEN CHOOSE i \in honnan..Len(s) :
             SubSeq(s, i, i) = c /\ \A j \in honnan..(i - 1) : SubSeq(s, j, j) # c
    ELSE 0

RECURSIVE TagTorol(_)
\* re.sub(r"<[^>]+>", " ", s)
TagTorol(s) ==
    IF Len(s) = 0 THEN ""
    ELSE LET zar == Keres(s, ">", 2)
         IN  IF SubSeq(s, 1, 1) = "<" /\ zar >= 3
             THEN " " \o TagTorol(SubSeq(s, zar + 1, Len(s)))
             ELSE SubSeq(s, 1, 1) \o TagTorol(SubSeq(s, 2, Len(s)))

\* the length of the longest prefix of s without whitespace
NemFeherHossz(s) ==
    IF \E i \in 1..Len(s) : Feher(SubSeq(s, i, i))
    THEN (CHOOSE i \in 1..Len(s) :
              Feher(SubSeq(s, i, i)) /\ \A j \in 1..(i - 1) : ~Feher(SubSeq(s, j, j))) - 1
    ELSE Len(s)

Kezdodik(s, minta) == Len(s) >= Len(minta) /\ SubSeq(s, 1, Len(minta)) = minta

RECURSIVE UrlTorol(_)
\* re.sub(r"https?://\S+", " ", s)
UrlTorol(s) ==
    IF Len(s) = 0 THEN ""
    ELSE LET fej  == IF Kezdodik(s, "http://") THEN 7
                     ELSE IF Kezdodik(s, "https://") THEN 8 ELSE 0
             test == NemFeherHossz(SubSeq(s, fej + 1, Len(s)))
         IN  IF fej > 0 /\ test >= 1
             THEN " " \o UrlTorol(SubSeq(s, fej + test + 1, Len(s)))
             ELSE SubSeq(s, 1, 1) \o UrlTorol(SubSeq(s, 2, Len(s)))

RECURSIVE FeherOsszevon(_)
\* re.sub(r"\s+", " ", s)
FeherOsszevon(s) ==
    IF Len(s) = 0 THEN ""
    ELSE IF Feher(SubSeq(s, 1, 1))
         THEN IF Len(s) >= 2 /\ Feher(SubSeq(s, 2, 2))
              THEN FeherOsszevon(SubSeq(s, 2, Len(s)))
              ELSE " " \o FeherOsszevon(SubSeq(s, 2, Len(s)))
         ELSE SubSeq(s, 1, 1) \o FeherOsszevon(SubSeq(s, 2, Len(s)))

RECURSIVE Strip(_)
\* str.strip()
Strip(s) ==
    IF Len(s) = 0 THEN ""
    ELSE IF Feher(SubSeq(s, 1, 1)) THEN Strip(SubSeq(s, 2, Len(s)))
    ELSE IF Feher(SubSeq(s, Len(s), Len(s))) THEN Strip(SubSeq(s, 1, Len(s) - 1))
    ELSE s

\* s[:n]
Eleje(s, n) == SubSeq(s, 1, Min2(n, Len(s)))

_tisztit(szoveg) == Strip(FeherOsszevon(UrlTorol(TagTorol(szoveg))))

(***************************************************************************)
(* The external collaborators, as deterministic functions of the text.     *)
(* The corpus holds one text for each behaviour of the parser and of the   *)
(* classifier that elemzes_batch has a code path for.                      *)
(***************************************************************************)
SzovegA == "Ez egy nagyon jo termek."

SzovegB == "Ez nem jo."

SzovegC == "<b>Rossz</b>  volt.  Unalmas."

SzovegD == "Hasznos http://x.hu volt"

SzovegE == "Nem rossz."

SzovegF == "Jo. Nem volt unalmas."

Korpusz == {SzovegA, SzovegB, SzovegC, SzovegD, SzovegE, SzovegF}

Token(text, lemma, head, sent, ws) ==
    [text |-> text, lemma |-> lemma, head |-> head, sent |-> sent, ws |-> ws]

DocTokenekbol(ts) ==
    [lemma |-> [i \in 1..Len(ts) |-> ts[i].lemma],
     head  |-> [i \in 1..Len(ts) |-> ts[i].head],
     sent  |-> [i \in 1..Len(ts) |-> ts[i].sent],
     text  |-> [i \in 1..Len(ts) |-> ts[i].text],
     ws    |-> [i \in 1..Len(ts) |-> ts[i].ws]]

TeljesUresDoc == DocTokenekbol(<<>>)

\* self.nlp(t) raises for this cleaned text
NlpHibas(tiszta) == tiszta = "Hasznos volt"

\* self.nlp(t): the parse of a cleaned text
Nlp(tiszta) ==
    CASE tiszta = "Ez egy nagyon jo termek." ->
            DocTokenekbol(<<Token("Ez", "ez", 5, 1, TRUE), Token("egy", "egy", 5, 1, TRUE),
                            Token("nagyon", "nagyon", 4, 1, TRUE), Token("jo", "jo", 5, 1, TRUE),
                            Token("termek", "termek", 5, 1, FALSE), Token(".", ".", 5, 1, FALSE)>>)
      [] tiszta = "Ez nem jo." ->
            DocTokenekbol(<<Token("Ez", "ez", 3, 1, TRUE), Token("nem", "nem", 3, 1, TRUE),
                            Token("jo", "jo", 3, 1, FALSE), Token(".", ".", 3, 1, FALSE)>>)
      [] tiszta = "Rossz volt. Unalmas." ->
            DocTokenekbol(<<Token("Rossz", "Rossz", 2, 1, TRUE), Token("volt", "van", 2, 1, FALSE),
                            Token(".", ".", 2, 1, TRUE), Token("Unalmas", "unalmas", 4, 2, FALSE),
                            Token(".", ".", 4, 2, FALSE)>>)
      [] tiszta = "Nem rossz." ->
            DocTokenekbol(<<Token("Nem", "Nem", 2, 1, TRUE), Token("rossz", "rossz", 2, 1, FALSE),
                            Token(".", ".", 2, 1, FALSE)>>)
      [] tiszta = "Jo. Nem volt unalmas." ->
            DocTokenekbol(<<Token("Jo", "jo", 1, 1, FALSE), Token(".", ".", 1, 1, TRUE),
                            Token("Nem", "nem", 5, 2, TRUE), Token("volt", "van", 5, 2, TRUE),
                            Token("unalmas", "unalmas", 5, 2, FALSE), Token(".", ".", 5, 2, FALSE)>>)
      [] OTHER -> TeljesUresDoc

\* the message of the exception raised while the result of this row is put
\* together (the try block of lines 768-805), "" when none is raised
FeldolgozasHiba(tiszta) ==
    IF tiszta = "Nem rossz." THEN "[E030] Sentence boundaries unset." ELSE ""

\* What the classifier gives for one text: the list of the scores of all
\* classes (the pipeline is built with top_k=None, line 182), no result at
\* all ("nincs"), or an exception ("kivetel").
Osztalyozo(szoveg) ==
    CASE szoveg = "Ez egy nagyon jo termek." ->
            RawList(<<Elem("LABEL_0", 100), Elem("LABEL_1", 200), Elem("LABEL_2", 500),
                      Elem("LABEL_3", 1200), Elem("LABEL_4", 8000)>>)
      [] szoveg = "Ez nem jo." -> [alak |-> "nincs", elemek |-> <<>>]
      [] szoveg = "Rossz volt. Unalmas." -> [alak |-> "kivetel", elemek |-> <<>>]
      [] szoveg = "Hasznos volt" ->
            RawList(<<Elem("NEGATIVE", 5300), Elem("POSITIVE", 4700)>>)
      [] szoveg = "Nem rossz." ->
            RawList(<<Elem("LABEL_0", 2000), Elem("LABEL_1", 3000), Elem("LABEL_2", 5000)>>)
      [] szoveg = "Jo. Nem volt unalmas." ->
            RawList(<<[label |-> "LABEL_0", score |-> 0, kulcsok |-> {"label"}]>>)
      [] OTHER -> [alak |-> "nincs", elemek |-> <<>>]

\* self.sentiment(chunk) raises: some text of the chunk makes it raise
ChunkHibas(chunk) == \E i \in 1..Len(chunk) : Osztalyozo(chunk[i]).alak = "kivetel"

RECURSIVE ChunkEredmeny(_, _)
\* self.sentiment(chunk): the results of the texts in order; a text without
\* a result gives an empty list (ures) or is left out
ChunkEredmeny(chunk, ures) ==
    IF Len(chunk) = 0 THEN <<>>
    ELSE LET r == Osztalyozo(chunk[1])
         IN  (IF r.alak # "nincs" THEN <<r>>
              ELSE IF ures THEN <<RawList(<<>>)>> ELSE <<>>)
                 \o ChunkEredmeny(SubSeq(chunk, 2, Len(chunk)), ures)

\* [r] of line 754: a dict becomes a one-item list, a list becomes nested
Csomagol(r) ==
    IF r.alak = "dict" THEN RawList(r.elemek) ELSE [alak |-> "beagyazott", elemek |-> r.elemek]

\* lines 751-754: what one chunk adds to raw_batch
ChunkbolRawBatch(raw_chunk) ==
    IF Len(raw_chunk) > 0 /\ raw_chunk[1].alak = "list" THEN raw_chunk
    ELSE [k \in 1..Len(raw_chunk) |-> Csomagol(raw_chunk[k])]

(***************************************************************************)
(* _modell_elemez (lines 304-318)                                          *)
(***************************************************************************)
\* lines 311-318, for the outcome ki of pipeline_obj(szoveg[:512]): the call
\* returns the list of the results of the one text; a list payload is
\* unwrapped (314-315), a dict stays in its list; any exception gives the default
ModellJel(ki) ==
    LET jel == IF ki.alak \in {"nincs", "kivetel"} THEN Alap
               ELSE _feldolgoz_nytk_eredmeny(RawList(ki.elemek))
    IN  IF ki.alak = "kivetel" \/ jel.hiba THEN Alap ELSE jel

\* sentiment is TRUE when the pipeline was loaded, FALSE for None
_modell_elemez(szoveg, sent_van) ==
    IF ~sent_van THEN Alap ELSE ModellJel(Osztalyozo(Eleje(szoveg, 512)))

\* the class-count cache after _modell_elemez
ModellElemezNClasses(szoveg, sent_van, regi) ==
    LET r == Osztalyozo(Eleje(szoveg, 512))
    IN  IF ~sent_van \/ r.alak \in {"kivetel", "nincs"} THEN regi
        ELSE NClassesUtan(RawList(r.elemek), regi)

(***************************************************************************)
(* Sentences of a Doc and the per-sentence summary (lines 596-615)         *)
(***************************************************************************)
MondatokSzama(d) == IF DocLen(d) = 0 THEN 0 ELSE d.sent[DocLen(d)]

MondatEleje(d, m) == CHOOSE i \in 1..DocLen(d) :
                         d.sent[i] = m /\ \A j \in 1..(i - 1) : d.sent[j] # m

MondatVege(d, m) == CHOOSE i \in 1..DocLen(d) :
                        d.sent[i] = m /\ \A j \in (i + 1)..DocLen(d) : d.sent[j] # m

\* sent.as_doc(): the tokens of the sentence alone, re-indexed
AsDoc(d, m) ==
    LET a == MondatEleje(d, m)
        b == MondatVege(d, m)
    IN  [lemma |-> [i \in 1..(b - a + 1) |-> d.lemma[a + i - 1]],
         head  |-> [i \in 1..(b - a + 1) |-> d.head[a + i - 1] - a + 1],
         sent  |-> [i \in 1..(b - a + 1) |-> 1],
         text  |-> [i \in 1..(b - a + 1) |-> d.text[a + i - 1]],
         ws    |-> [i \in 1..(b - a + 1) |-> d.ws[a + i - 1]]]

RECURSIVE TokenSzoveg(_, _, _)
\* the text of the tokens a..b with the whitespace between them
TokenSzoveg(d, a, b) ==
    IF a > b THEN ""
    ELSE d.text[a] \o (IF a < b /\ d.ws[a] THEN " " ELSE "") \o TokenSzoveg(d, a + 1, b)

\* sent.text
MondatSzoveg(d, m) == TokenSzoveg(d, MondatEleje(d, m), MondatVege(d, m))

RECURSIVE OsszefoglaloReszek(_, _)
\* lines 602-614: the entries of the sentences 1..m
OsszefoglaloReszek(d, m) ==
    IF m = 0 THEN <<>>
    ELSE LET szoveg == Strip(MondatSzoveg(d, m))
             pont   == _szotari_pontszam(AsDoc(d, m))
             resz   == "M" \o ToString(m) \o ":" \o OsszefoglaloKat(pont)
                           \o "(" \o TizedesElojel(pont, 2) \o ")"
         IN  OsszefoglaloReszek(d, m - 1)
                 \o (IF Len(szoveg) < 5 THEN <<>> ELSE <<resz>>)

RECURSIVE Join(_, _)
\* sep.join(reszek)
Join(reszek, sep) ==
    IF Len(reszek) = 0 THEN ""
    ELSE IF Len(reszek) = 1 THEN reszek[1]
    ELSE reszek[1] \o sep \o Join(Tail(reszek), sep)

_mondatszintu_osszefoglalo_doc(d) == Join(OsszefoglaloReszek(d, MondatokSzama(d)), " | ")

(***************************************************************************)
(* The result dicts                                                        *)
(***************************************************************************)
\* round(x, 4) of a value in 1/Egyseg
Round4(x) ==
    LET lepes == Egyseg \div 10000
    IN  (IF x < 0 THEN -1 ELSE 1) * Kerekit(Abs(x), lepes) * lepes

\* lines 618-638
_hiba_eredmeny(szoveg, hiba) ==
    [eredeti_szoveg         |-> Eleje(szoveg, 200),
     kategoria              |-> "hiba",
     pontszam               |-> 0,
     hunbert_kategoria      |-> "hiba",
     hunbert_confidence     |-> 0,
     hibrid_kategoria       |-> "semleges",
     hibrid_megalapozas     |-> <<"Hiba: ", Eleje(hiba, 100)>>,
     mondatszintu_sentiment |-> "",
     mondatok_szama         |-> 0,
     token_szam             |-> 0]

\* lines 686-704 and 787-805: the result of a row from its parts
EredmenyDict(tiszta, d, mondatszintu, huspacy_kat, pont, jel) ==
    LET h == _hibrid_kategoria(pont, jel.kat, jel.conf)
    IN  [eredeti_szoveg         |-> tiszta,
         kategoria              |-> huspacy_kat,
         pontszam               |-> Round4(pont),
         hunbert_kategoria      |-> jel.kat,
         hunbert_confidence     |-> Round4(jel.conf),
         hibrid_kategoria       |-> h.kat,
         hibrid_megalapozas     |-> h.megalapozas,
         mondatszintu_sentiment |-> mondatszintu,
         mondatok_szama         |-> MondatokSzama(d),
         token_szam             |-> Cardinality({i \in 1..DocLen(d) : ~IsSpace(d, i)})]

\* lines 666-704: elemez_egyet raises when the parser or the assembly raises
EgyetKivetel(szoveg) ==
    LET tiszta == _tisztit(szoveg)
    IN  NlpHibas(tiszta) \/ FeldolgozasHiba(tiszta) # ""

\* lines 666-704: the dict elemez_egyet returns
elemez_egyet(szoveg, sent_van) ==
    LET tiszta       == _tisztit(szoveg)
        d            == Nlp(tiszta)
        pont         == _szotari_pontszam(d)
        jel          == _modell_elemez(tiszta, sent_van)
    IN  EredmenyDict(tiszta, d, _mondatszintu_osszefoglalo_doc(d),
                     EgyetHuspacyKat(pont), pont, jel)

(***************************************************************************)
(* Harness of _feldolgoz_nytk_eredmeny: the payload is drawn from the      *)
(* explicit-label and the N-class ordinal shapes, the call is applied, and *)
(* the confidence is carried to the result field through both entry points.*)
(***************************************************************************)
RacsPontok == {k * (Egyseg \div Racs) : k \in 0..Racs}

\* the grid, 0.04 and the boundary value 0.05 of line 247
ExplicitPontok == RacsPontok \cup {Egyseg \div 25, Egyseg \div 20}

OrdinalisPayload(n, f) == RawList([k \in 1..n |-> Elem("LABEL_" \o ToString(k - 1), f[k])])

\* an explicit-label payload: one item for each label of ExplicitSor, in order
ExplicitPayload(f) == RawList([k \in 1..Len(ExplicitSor) |-> Elem(ExplicitSor[k], f[k])])

Payloadok ==
    {RawNone, RawList(<<>>), RawList(<<[label |-> "LABEL_0", score |-> 0, kulcsok |-> {"label"}]>>)}
    \cup {RawDict(Elem(c, p)) : c \in ExplicitCimkek, p \in ExplicitPontok}
    \cup {ExplicitPayload(f) : f \in [1..Len(ExplicitSor) -> ExplicitPontok]}
    \cup UNION {{OrdinalisPayload(n, f) : f \in [1..n -> RacsPontok]} : n \in 1..MaxOsztaly}

\* the precondition of the confidence range: every score in [0, 1], sum <= 1
RECURSIVE PontOsszegzes(_)
PontOsszegzes(elemek) ==
    IF Len(elemek) = 0 THEN 0 ELSE elemek[1].score + PontOsszegzes(Tail(elemek))

SzabalyosPayload(r) ==
    /\ \A k \in 1..Len(r.elemek) :
          /\ r.elemek[k].kulcsok = {"label", "score"}
          /\ r.elemek[k].score >= 0 /\ r.elemek[k].score <= Egyseg
    /\ PontOsszegzes(r.elemek) <= Egyseg

\* the hunbert_confidence a result gets when the classifier handed back r for
\* its text: through _modell_elemez (line 675, 695), and through the
\* cache of elemzes_batch (756-764, 773, 796)
EgyetConfidence(r) ==
    Round4(ModellJel(IF r.alak = "None" THEN [alak |-> "nincs", elemek |-> <<>>] ELSE r).conf)

BatchConfidence(r) ==
    LET jel == _feldolgoz_nytk_eredmeny(r)
    IN  IF jel.hiba THEN EgyetConfidence(r) ELSE Round4(jel.conf)

NytkNyugvo == raw = RawNone /\ nytk_eredmeny = <<>>

NytkBemenet ==
    /\ raw \in Payloadok
    /\ nytk_eredmeny = <<>>
    /\ _nytk_n_classes = 0

NytkHivas ==
    /\ nytk_eredmeny = <<>>
    /\ nytk_eredmeny' = <<[jel   |-> _feldolgoz_nytk_eredmeny(raw),
                           egyet |-> EgyetConfidence(raw),
                           batch |-> BatchConfidence(raw)]>>
    /\ _nytk_n_classes' = NClassesUtan(raw, _nytk_n_classes)
    /\ UNCHANGED raw

(***************************************************************************)
(* FejlettSentimentElemzo.elemzes_batch (lines 706-809) as a state machine *)
(***************************************************************************)
MaxSor == 2         \* the input has 0..MaxSor rows

\* the values of batch_meret: no chunk at all, the ValueError of range(),
\* and every chunking of up to MaxSor rows
Meretek == (-1)..MaxSor

Sorok == UNION {[1..n -> Korpusz] : n \in 0..MaxSor}

NincsElozo == [fut |-> FALSE, meret |-> 0, eredmenyek |-> <<>>]

BatchNyugvo ==
    /\ szovegek = <<>> /\ batch_meret = 0 /\ sentiment = FALSE /\ ures_elem = FALSE
    /\ pc = "nyugvo" /\ tisztitott = <<>> /\ docs = <<>> /\ chunk_i = 0
    /\ raw_batch = <<>> /\ nytk_sor_cache = <<>> /\ doc_idx = 0
    /\ eredmenyek = <<>> /\ elozo = NincsElozo

BatchBemenet ==
    /\ szovegek \in Sorok
    /\ batch_meret \in Meretek
    /\ sentiment \in BOOLEAN
    /\ ures_elem \in BOOLEAN
    /\ pc = "indul"
    /\ tisztitott = <<>> /\ docs = <<>> /\ chunk_i = 0
    /\ raw_batch = <<>> /\ nytk_sor_cache = <<>> /\ doc_idx = 0
    /\ eredmenyek = <<>> /\ elozo = NincsElozo
    /\ _nytk_n_classes = 0

\* The pure functions of a row are tabulated once over the corpus; the
\* actions below read the tables.
TisztitTabla == [t \in Korpusz |-> _tisztit(t)]

DocTabla == [t \in Korpusz |-> Nlp(TisztitTabla[t])]

KorpuszDocok == {DocTabla[t] : t \in Korpusz} \cup {Nlp("")}

SzotariPontTabla == [d \in KorpuszDocok |-> _szotari_pontszam(d)]

MondatszintuTabla == [d \in KorpuszDocok |-> _mondatszintu_osszefoglalo_doc(d)]

\* line 723
Tisztitottak(ss) == [k \in 1..Len(ss) |-> TisztitTabla[ss[k]]]

\* lines 720-721: nothing to do for an empty input
UresBemenet ==
    /\ pc = "indul" /\ Len(szovegek) = 0
    /\ pc' = "kesz"
    /\ UNCHANGED <<szovegek, batch_meret, sentiment, ures_elem, tisztitott, docs, chunk_i,
                   raw_batch, nytk_sor_cache, doc_idx, eredmenyek, elozo, _nytk_n_classes>>

\* lines 723-727: nlp.pipe parses every row
NlpPipe ==
    /\ pc = "indul" /\ Len(szovegek) > 0
    /\ \A k \in 1..Len(szovegek) : ~NlpHibas(TisztitTabla[szovegek[k]])
    /\ tisztitott' = Tisztitottak(szovegek)
    /\ docs' = [k \in 1..Len(szovegek) |-> DocTabla[szovegek[k]]]
    /\ pc' = "nytk"
    /\ UNCHANGED <<szovegek, batch_meret, sentiment, ures_elem, chunk_i, raw_batch,
                   nytk_sor_cache, doc_idx, eredmenyek, elozo, _nytk_n_classes>>

\* lines 728-735: nlp.pipe raised; the rows are parsed one by one and a row
\* that cannot be parsed gets the parse of the empty text
NlpPipeHiba ==
    /\ pc = "indul" /\ Len(szovegek) > 0
    /\ \E k \in 1..Len(szovegek) : NlpHibas(TisztitTabla[szovegek[k]])
    /\ tisztitott' = Tisztitottak(szovegek)
    /\ docs' = [k \in 1..Len(szovegek) |->
                   IF NlpHibas(TisztitTabla[szovegek[k]]) THEN Nlp("")
                   ELSE DocTabla[szovegek[k]]]
    /\ pc' = "nytk"
    /\ UNCHANGED <<szovegek, batch_meret, sentiment, ures_elem, chunk_i, raw_batch,
                   nytk_sor_cache, doc_idx, eredmenyek, elozo, _nytk_n_classes>>

\* line 743: without a classifier the cache stays empty
NytkNincs ==
    /\ pc = "nytk" /\ ~sentiment
    /\ pc' = "osszeallit"
    /\ UNCHANGED <<szovegek, batch_meret, sentiment, ures_elem, tisztitott, docs, chunk_i,
                   raw_batch, nytk_sor_cache, doc_idx, eredmenyek, elozo, _nytk_n_classes>>

\* line 746: range(0, len(tisztitott), 0) raises ValueError
NytkRangeHiba ==
    /\ pc = "nytk" /\ sentiment /\ batch_meret = 0
    /\ pc' = "fallback"
    /\ UNCHANGED <<szovegek, batch_meret, sentiment, ures_elem, tisztitott, docs, chunk_i,
                   raw_batch, nytk_sor_cache, doc_idx, eredmenyek, elozo, _nytk_n_classes>>

\* mutant: a chunk whose call raised is skipped and the loop goes on
NytkChunkKihagy ==
    /\ pc = "nytk" /\ sentiment /\ batch_meret > 0 /\ chunk_i < Len(tisztitott)
    /\ LET veg   == Min2(chunk_i + batch_meret, Len(tisztitott))
           chunk == [k \in 1..(veg - chunk_i) |-> Eleje(tisztitott[chunk_i + k], 512)]
       IN  raw_batch' = IF ChunkHibas(chunk) THEN raw_batch
                        ELSE raw_batch \o ChunkbolRawBatch(ChunkEredmeny(chunk, ures_elem))
    /\ chunk_i' = chunk_i + batch_meret
    /\ UNCHANGED <<szovegek, batch_meret, sentiment, ures_elem, pc, tisztitott, docs,
                   nytk_sor_cache, doc_idx, eredmenyek, elozo, _nytk_n_classes>>

\* lines 746-754: one chunk is classified and its results are appended
NytkChunk ==
    /\ pc = "nytk" /\ sentiment /\ batch_meret > 0 /\ chunk_i < Len(tisztitott)
    /\ LET veg   == Min2(chunk_i + batch_meret, Len(tisztitott))
           chunk == [k \in 1..(veg - chunk_i) |-> Eleje(tisztitott[chunk_i + k], 512)]
       IN  IF ChunkHibas(chunk)
           THEN /\ pc' = "fallback"
                /\ UNCHANGED <<raw_batch, chunk_i>>
           ELSE /\ raw_batch' = raw_batch \o ChunkbolRawBatch(ChunkEredmeny(chunk, ures_elem))
                /\ chunk_i' = chunk_i + batch_meret
                /\ pc' = "nytk"
    /\ UNCHANGED <<szovegek, batch_meret, sentiment, ures_elem, tisztitott, docs,
                   nytk_sor_cache, doc_idx, eredmenyek, elozo, _nytk_n_classes>>

RECURSIVE NClassesSor(_, _)
\* the class-count cache after the payloads rs were interpreted in order
NClassesSor(rs, regi) ==
    IF Len(rs) = 0 THEN regi ELSE NClassesSor(Tail(rs), NClassesUtan(rs[1], regi))

\* lines 756-758: the payloads are interpreted, payload k for doc_idx k - 1;
\* the first payload that raises ends the loop
NytkFeldolgoz ==
    /\ pc = "nytk" /\ sentiment
    /\ batch_meret < 0 \/ (batch_meret > 0 /\ chunk_i >= Len(tisztitott))
    /\ LET jelek   == [k \in 1..Len(raw_batch) |-> _feldolgoz_nytk_eredmeny(raw_batch[k])]
           hibasak == {k \in 1..Len(raw_batch) : jelek[k].hiba}
           ep      == IF hibasak = {} THEN Len(raw_batch)
                      ELSE (CHOOSE k \in hibasak : \A j \in hibasak : k <= j) - 1
       IN  /\ nytk_sor_cache' = SubSeq(jelek, 1, ep)
           /\ _nytk_n_classes' = NClassesSor(SubSeq(raw_batch, 1, ep), _nytk_n_classes)
           /\ pc' = IF hibasak = {} THEN "osszeallit" ELSE "fallback"
    /\ UNCHANGED <<szovegek, batch_meret, sentiment, ures_elem, tisztitott, docs, chunk_i,
                   raw_batch, doc_idx, eredmenyek, elozo>>

\* mutant: after an exception the cache is left as it is, no row is
\* classified on its own
NytkFallbackNelkul ==
    /\ pc = "fallback"
    /\ pc' = "osszeallit"
    /\ UNCHANGED <<szovegek, batch_meret, sentiment, ures_elem, tisztitott, docs, chunk_i,
                   raw_batch, nytk_sor_cache, doc_idx, eredmenyek, elozo, _nytk_n_classes>>

RECURSIVE NClassesFallback(_, _)
NClassesFallback(ts, regi) ==
    IF Len(ts) = 0 THEN regi
    ELSE NClassesFallback(Tail(ts), ModellElemezNClasses(ts[1], TRUE, regi))

\* lines 760-764: after any exception every row is classified on its own
NytkFallback ==
    /\ pc = "fallback"
    /\ nytk_sor_cache' = [k \in 1..Len(tisztitott) |-> _modell_elemez(tisztitott[k], sentiment)]
    /\ _nytk_n_classes' = NClassesFallback(tisztitott, _nytk_n_classes)
    /\ pc' = "osszeallit"
    /\ UNCHANGED <<szovegek, batch_meret, sentiment, ures_elem, tisztitott, docs, chunk_i,
                   raw_batch, doc_idx, eredmenyek, elozo>>

\* nytk_sor_cache.get(doc_idx, ("semleges", 0.5)) of line 773
CacheGet(cache, idx) == IF idx + 1 \in DOMAIN cache THEN cache[idx + 1] ELSE Alap

\* the mean of the scores of the sentences of d, taken one by one
MondatAtlag(d) ==
    LET n == MondatokSzama(d)
        pontok == [m \in 1..n |-> _szotari_pontszam(AsDoc(d, m))]
    IN  IF n = 0 THEN 0 ELSE Osszeg(pontok, 1..n) \div n

\* mutant: the score of the row is the mean of the scores of its sentences
OsszeallitMondatAtlag ==
    /\ pc = "osszeallit" /\ doc_idx < Len(szovegek)
    /\ FeldolgozasHiba(tisztitott[doc_idx + 1]) = ""
    /\ LET d    == docs[doc_idx + 1]
           pont == MondatAtlag(d)
       IN  eredmenyek' = Append(eredmenyek,
               EredmenyDict(tisztitott[doc_idx + 1], d, MondatszintuTabla[d],
                            BatchHuspacyKat(pont), pont, CacheGet(nytk_sor_cache, doc_idx)))
    /\ doc_idx' = doc_idx + 1
    /\ UNCHANGED <<szovegek, batch_meret, sentiment, ures_elem, pc, tisztitott, docs, chunk_i,
                   raw_batch, nytk_sor_cache, elozo, _nytk_n_classes>>

\* lines 767-805: the row at doc_idx is put together and yielded
Osszeallit ==
    /\ pc = "osszeallit" /\ doc_idx < Len(szovegek)
    /\ FeldolgozasHiba(tisztitott[doc_idx + 1]) = ""
    /\ LET d    == docs[doc_idx + 1]
           pont == SzotariPontTabla[d]
       IN  eredmenyek' = Append(eredmenyek,
               EredmenyDict(tisztitott[doc_idx + 1], d, MondatszintuTabla[d],
                            BatchHuspacyKat(pont), pont, CacheGet(nytk_sor_cache, doc_idx)))
    /\ doc_idx' = doc_idx + 1
    /\ UNCHANGED <<szovegek, batch_meret, sentiment, ures_elem, pc, tisztitott, docs, chunk_i,
                   raw_batch, nytk_sor_cache, elozo, _nytk_n_classes>>

\* mutant: the row whose assembly raised is skipped, nothing is yielded
OsszeallitHibaKihagy ==
    /\ pc = "osszeallit" /\ doc_idx < Len(szovegek)
    /\ FeldolgozasHiba(tisztitott[doc_idx + 1]) # ""
    /\ doc_idx' = doc_idx + 1
    /\ UNCHANGED <<szovegek, batch_meret, sentiment, ures_elem, pc, tisztitott, docs, chunk_i,
                   raw_batch, nytk_sor_cache, eredmenyek, elozo, _nytk_n_classes>>

\* lines 807-809: putting the row together raised; the error dict is yielded
OsszeallitHiba ==
    /\ pc = "osszeallit" /\ doc_idx < Len(szovegek)
    /\ FeldolgozasHiba(tisztitott[doc_idx + 1]) # ""
    /\ eredmenyek' = Append(eredmenyek,
           _hiba_eredmeny(szovegek[doc_idx + 1], FeldolgozasHiba(tisztitott[doc_idx + 1])))
    /\ doc_idx' = doc_idx + 1
    /\ UNCHANGED <<szovegek, batch_meret, sentiment, ures_elem, pc, tisztitott, docs, chunk_i,
                   raw_batch, nytk_sor_cache, elozo, _nytk_n_classes>>

\* the loop of line 767 is exhausted: the generator ends
Vege ==
    /\ pc = "osszeallit" /\ doc_idx = Len(szovegek)
    /\ pc' = "kesz"
    /\ UNCHANGED <<szovegek, batch_meret, sentiment, ures_elem, tisztitott, docs, chunk_i,
                   raw_batch, nytk_sor_cache, doc_idx, eredmenyek, elozo, _nytk_n_classes>>

\* the caller runs elemzes_batch again on the same input, in the same
\* process, with any batch_meret; the module global _nytk_n_classes keeps
\* the value the first run left in it
Ujra ==
    /\ pc = "kesz" /\ ~elozo.fut
    /\ elozo' = [fut |-> TRUE, meret |-> batch_meret, eredmenyek |-> eredmenyek]
    /\ batch_meret' \in Meretek
    /\ pc' = "indul"
    /\ tisztitott' = <<>> /\ docs' = <<>> /\ chunk_i' = 0
    /\ raw_batch' = <<>> /\ nytk_sor_cache' = <<>> /\ doc_idx' = 0
    /\ eredmenyek' = <<>>
    /\ UNCHANGED <<szovegek, sentiment, ures_elem, _nytk_n_classes>>

(***************************************************************************)
(* _aggregalt_sentiment (huspacy_elemzo.py 435-458).  A sentence judgment  *)
(* is the dict of lines 403-408: its text enters only through the word     *)
(* count len(m["mondat"].split()), kept as szavak.  A quotient of the      *)
(* source is kept as the fraction sz / nev, the numerator in 1/Egyseg.     *)
(***************************************************************************)
Tort(sz, nev) == [sz |-> sz, nev |-> nev]

RECURSIVE OsszSuly(_, _)
\* line 449: ossz_suly after the first k sentences
OsszSuly(m, k) == IF k = 0 THEN 0 ELSE OsszSuly(m, k - 1) + m[k].szavak

RECURSIVE SulyPont(_, _)
\* line 450: suly_pont after the first k sentences
SulyPont(m, k) ==
    IF k = 0 THEN 0 ELSE SulyPont(m, k - 1) + m[k].huspacy_pont * m[k].szavak

RECURSIVE KatSzamlalo(_, _, _)
\* line 451: kat_szamlalo[kat] after the first k sentences
KatSzamlalo(m, kat, k) ==
    IF k = 0 THEN 0
    ELSE KatSzamlalo(m, kat, k - 1)
         + (IF m[k].modell_kat = kat THEN m[k].modell_conf * m[k].szavak ELSE 0)

\* the place a key was inserted at: the Counter keeps the insertion order
Beszurva(m, kat) == CHOOSE i \in 1..Len(m) :
    m[i].modell_kat = kat /\ \A j \in 1..(i - 1) : m[j].modell_kat # kat

\* lines 454-455: most_common(1), the first key in insertion order among
\* those with the highest count
MostCommon(m) ==
    LET kulcsok == {m[i].modell_kat : i \in 1..Len(m)}
        ertek(k) == KatSzamlalo(m, k, Len(m))
    IN  CHOOSE k \in kulcsok : \A j \in kulcsok :
            ertek(k) > ertek(j) \/ (ertek(k) = ertek(j) /\ Beszurva(m, k) <= Beszurva(m, j))

\* line 456: min(legjobb_suly / ossz_suly, 1.0)
Sapka(sz, nev) == IF sz > Egyseg * nev THEN Tort(Egyseg, 1) ELSE Tort(sz, nev)

\* mutant: every sentence weighs the same
AggregaltSulyNelkul(m) ==
    LET egy == [i \in 1..Len(m) |-> [m[i] EXCEPT !.szavak = 1]]
    IN  IF Len(m) = 0 THEN [pont |-> Tort(0, 1), kat |-> "semleges", conf |-> Tort(Egyseg \div 2, 1)]
        ELSE [pont |-> Tort(SulyPont(egy, Len(m)), Len(m)),
              kat  |-> MostCommon(egy),
              conf |-> Sapka(KatSzamlalo(egy, MostCommon(egy), Len(m)), Len(m))]

\* lines 435-458: returns (atlag_pont, legjobb_kat, atlag_conf)
_aggregalt_sentiment(m) ==
    IF Len(m) = 0 THEN
        [pont |-> Tort(0, 1), kat |-> "semleges", conf |-> Tort(Egyseg \div 2, 1)]
    ELSE
        LET ossz_suly    == OsszSuly(m, Len(m))
            suly_pont    == SulyPont(m, Len(m))
            legjobb_kat  == MostCommon(m)
            legjobb_suly == KatSzamlalo(m, legjobb_kat, Len(m))
        IN  [pont |-> IF ossz_suly > 0 THEN Tort(suly_pont, ossz_suly) ELSE Tort(0, 1),
             kat  |-> legjobb_kat,
             conf |-> IF ossz_suly > 0 THEN Sapka(legjobb_suly, ossz_suly)
                      ELSE Tort(Egyseg \div 2, 1)]

(***************************************************************************)
(* Harness of _aggregalt_sentiment: up to MaxMondat judgments, word counts *)
(* from 0 (a text of blanks) to MaxSzo, confidences up to 1.5 (the sum of  *)
(* two ordinal classes of a payload that is not a distribution).           *)
(***************************************************************************)
MaxMondat == 2

MaxSzo == 2

Itelet ==
    [szavak : 0..MaxSzo,
     huspacy_pont : {-(Egyseg \div 2), Egyseg},
     modell_kat : Kategoriak,
     modell_conf : {Egyseg \div 2, Egyseg, 3 * (Egyseg \div 2)}]

AggrNyugvo == mondatok = <<>> /\ aggregalt = <<>>

AggrBemenet ==
    /\ \E n \in 0..MaxMondat : mondatok \in [1..n -> Itelet]
    /\ aggregalt = <<>>

AggrHivas ==
    /\ aggregalt = <<>>
    /\ aggregalt' = <<_aggregalt_sentiment(mondatok)>>
    /\ UNCHANGED mondatok

(***************************************************************************)
(* SentimentGui (gui_app.py).  The handlers of the buttons run on the Tk   *)
(* thread, one at a time; a thread started on _run_analysis runs beside    *)
(* them, and each of its statements that touches the shared state is a     *)
(* step of its own.  A disabled button does not call its command.          *)
(***************************************************************************)
MaxFutas == 3                  \* threads started in one life of the window

\* the positions of a thread in _run_analysis (lines 147-235)
TryLepesek == <<"beolvas", "oszlop", "motor", "elemez", "temak", "riport", "uzenet">>

Kovetkezo(hely) ==
    LET i == CHOOSE j \in 1..Len(TryLepesek) : TryLepesek[j] = hely
    IN  IF i = Len(TryLepesek) THEN "cleanup" ELSE TryLepesek[i + 1]

\* lines 25-34: the window after __init__; btn_run is created disabled (81)
GuiIndul ==
    /\ is_running = FALSE
    /\ btn_run = "disabled"
    /\ btn_select = "normal"
    /\ selected_path = FALSE
    /\ fuggoseg = "var"
    /\ szalak = <<>>

GuiNyugvo == GuiIndul

\* lines 98-116: the dependency check, started once from __init__
FuggosegEllenorzes ==
    /\ fuggoseg = "var"
    /\ \E ok \in BOOLEAN :
          /\ fuggoseg' = IF ok THEN "ok" ELSE "hiba"
          /\ btn_select' = IF ok THEN btn_select ELSE "disabled"
    /\ UNCHANGED <<is_running, btn_run, selected_path, szalak>>

\* lines 122-132: the dialog gives a path, or "" when it is dismissed
SelectFile ==
    /\ btn_select = "normal"
    /\ \E path \in BOOLEAN :
          IF path
          THEN /\ selected_path' = TRUE
               /\ btn_run' = "normal"
          ELSE UNCHANGED <<selected_path, btn_run>>
    /\ UNCHANGED <<is_running, btn_select, fuggoseg, szalak>>

\* lines 138-145
StartThread ==
    /\ btn_run = "normal"
    /\ Len(szalak) < MaxFutas
    /\ IF is_running
       THEN UNCHANGED <<is_running, btn_run, btn_select, szalak>>
       ELSE /\ is_running' = TRUE
            /\ btn_run' = "disabled"
            /\ btn_select' = "disabled"
            /\ szalak' = Append(szalak, TryLepesek[1])
    /\ UNCHANGED <<selected_path, fuggoseg>>

\* lines 149-220: a step of the try block goes through
Halad(k) ==
    /\ \E i \in 1..Len(TryLepesek) : szalak[k] = TryLepesek[i]
    /\ szalak' = [szalak EXCEPT ![k] = Kovetkezo(szalak[k])]
    /\ UNCHANGED <<is_running, btn_run, btn_select, selected_path, fuggoseg>>

\* lines 222-225: a step of the try block raises; the except clause shows
\* the message and control goes on to the finally clause
Kivetelt(k) ==
    /\ \E i \in 1..Len(TryLepesek) : szalak[k] = TryLepesek[i]
    /\ szalak' = [szalak EXCEPT ![k] = "cleanup"]
    /\ UNCHANGED <<is_running, btn_run, btn_select, selected_path, fuggoseg>>

\* line 232
CleanupProgress(k) ==
    /\ szalak[k] = "cleanup"
    /\ szalak' = [szalak EXCEPT ![k] = "is_running"]
    /\ UNCHANGED <<is_running, btn_run, btn_select, selected_path, fuggoseg>>

\* line 233
IsRunningFalse(k) ==
    /\ szalak[k] = "is_running"
    /\ is_running' = FALSE
    /\ szalak' = [szalak EXCEPT ![k] = "btn_run"]
    /\ UNCHANGED <<btn_run, btn_select, selected_path, fuggoseg>>

\* line 234
BtnRunNormal(k) ==
    /\ szalak[k] = "btn_run"
    /\ btn_run' = "normal"
    /\ szalak' = [szalak EXCEPT ![k] = "btn_select"]
    /\ UNCHANGED <<is_running, btn_select, selected_path, fuggoseg>>

\* line 235, after which the function returns and the thread ends
BtnSelectNormal(k) ==
    /\ szalak[k] = "btn_select"
    /\ btn_select' = "normal"
    /\ szalak' = [szalak EXCEPT ![k] = "vege"]
    /\ UNCHANGED <<is_running, btn_run, selected_path, fuggoseg>>

(***************************************************************************)
(* Claims about _hibrid_kategoria (checked under SpecHibrid)               *)
(***************************************************************************)
\* The lexical category as the specification states it: above 0.10 positive,
\* below -0.10 negative, otherwise (the boundary values included) neutral.
LexikaiKategoria(pont) ==
    CASE pont > 1000  -> "pozitiv"
      [] pont < -1000 -> "negativ"
      [] OTHER        -> "semleges"

HibridKesz == hibrid # NincsHibrid

\* C1: whenever the lexical category of the score equals the external
\* category, the cascade returns that category, whatever the external
\* confidence is in [0, 1], 0.0 included.
C1_Egyezes ==
    (HibridKesz /\ LexikaiKategoria(huspacy_pont) = modell_kat)
        => hibrid.kat = modell_kat

\* reached: an agreement on a non-neutral category at confidence 0.0
C1_Tanu ==
    /\ HibridKesz
    /\ modell_conf = 0
    /\ modell_kat = "negativ"
    /\ LexikaiKategoria(huspacy_pont) = modell_kat
    /\ hibrid.kat = "negativ"

\* The number of the first rule of the specification's cascade that matches.
ElsoSzabaly(pont, kat, conf) ==
    LET lex == LexikaiKategoria(pont)
    IN  CASE lex = kat                                   -> 1
          [] lex # kat /\ conf >= 5500 /\ kat # "semleges" -> 2
          [] OTHER ->
             IF Abs(pont) >= 2500 /\ lex # "semleges" THEN 3
             ELSE IF conf > 5000 /\ kat # "semleges" THEN 4
             ELSE IF Abs(pont) > 1000 /\ lex # "semleges" THEN 5
             ELSE 6

SzabalyKategoria(pont, kat, conf) ==
    LET sz == ElsoSzabaly(pont, kat, conf)
    IN  CASE sz \in {1, 3, 5} -> LexikaiKategoria(pont)
          [] sz \in {2, 4}    -> kat
          [] OTHER            -> "semleges"

SzabalySzoveg(sz) ==
    CASE sz = 1 -> "Egyezes: "
      [] sz = 2 -> "NYTK magabiztos ("
      [] sz = 3 -> "Eros szotari jel ("
      [] sz = 4 -> "NYTK mersekelt jel ("
      [] sz = 5 -> "Mersekelt szotari jel ("
      [] sz = 6 -> "Gyenge/ellentmondo jelek -> semleges (HuSpaCy: "

\* The rules a justification can come from, read off its opening wording.
SzovegSzabalyai(m) == {sz \in 1..6 : Len(m) > 0 /\ m[1] = SzabalySzoveg(sz)}

\* Where the score and the confidence stand in the justification of a rule.
PontMezo(m, sz) ==
    CASE sz = 1 -> m[4] [] sz = 2 -> m[4] [] sz = 3 -> m[2]
      [] sz = 4 -> m[4] [] sz = 5 -> m[2] [] sz = 6 -> m[2]

ConfMezo(m, sz) ==
    CASE sz = 1 -> m[6] [] sz = 2 -> m[2] [] sz = 3 -> m[6]
      [] sz = 4 -> m[2] [] sz = 5 -> m[6] [] sz = 6 -> m[6]

\* exactly one rule is named by the justification, and it is the rule that fired
C3_SzabalyAzonositva ==
    SzovegSzabalyai(hibrid.megalapozas)
        = {ElsoSzabaly(huspacy_pont, modell_kat, modell_conf)}

\* C3 as stated: exactly one rule fires, the justification identifies it, and
\* the justification records the two raw signal values (the numbers written
\* in it are the lexical score and the external confidence).
C3_NyersErtekek ==
    HibridKesz =>
        LET sz == ElsoSzabaly(huspacy_pont, modell_kat, modell_conf)
        IN  /\ C3_SzabalyAzonositva
            /\ OlvasTizedes(PontMezo(hibrid.megalapozas, sz)) = huspacy_pont
            /\ OlvasTizedes(ConfMezo(hibrid.megalapozas, sz)) = modell_conf

\* C3 amended: exactly one rule fires, the justification identifies it, and
\* the justification records the lexical score rounded to three decimals and
\* the external confidence rounded to two decimals.
C3_KerekitettErtekek ==
    HibridKesz =>
        LET sz == ElsoSzabaly(huspacy_pont, modell_kat, modell_conf)
            p  == PontMezo(hibrid.megalapozas, sz)
            c  == ConfMezo(hibrid.megalapozas, sz)
        IN  /\ C3_SzabalyAzonositva
            /\ TizedesJegyek(p) = 3
            /\ 2 * Abs(OlvasTizedes(p) - huspacy_pont) <= Egyseg \div 1000
            /\ TizedesJegyek(c) = 2
            /\ 2 * Abs(OlvasTizedes(c) - modell_conf) <= Egyseg \div 100

\* reached: rule 3 fires on a confidence just below 0.55 that the text of the
\* justification shows as 0.55
C3_Tanu ==
    /\ HibridKesz
    /\ ElsoSzabaly(huspacy_pont, modell_kat, modell_conf) = 3
    /\ modell_conf = 5496
    /\ ConfMezo(hibrid.megalapozas, 3) = "0.55"
    /\ hibrid.megalapozas[1] = SzabalySzoveg(3)

\* C6: the lexical category is a function of the score alone, > 0.10
\* positive, < -0.10 negative, otherwise neutral (exactly +-0.10 is neutral),
\* and the same mapping is applied in the fusion, in the single-item result,
\* in the batch result and in the per-sentence summary.
C6_KategoriaLekepezes ==
    LET lex == LexikaiKategoria(huspacy_pont)
    IN  /\ HibridHuspacyKat(huspacy_pont) = lex
        /\ EgyetHuspacyKat(huspacy_pont) = lex
        /\ BatchHuspacyKat(huspacy_pont) = lex
        /\ OsszefoglaloKat(huspacy_pont) = SubSeq(lex, 1, 3)
        /\ (HibridKesz /\ modell_kat = lex) => hibrid.megalapozas[2] = lex

\* reached: the score exactly 0.10 taken as neutral by the fusion
C6_Tanu ==
    /\ HibridKesz
    /\ huspacy_pont = 1000
    /\ modell_kat = "semleges"
    /\ hibrid.megalapozas[1] = "Egyezes: "
    /\ hibrid.megalapozas[2] = "semleges"

SzotarKesz == szotari_pont # <<>>

\* C4: for every token sequence, whatever its length and its mix of positive,
\* negative, negated and intensified lexicon tokens, the value returned by
\* _szotari_pontszam lies in [-1.0, 1.0].
C4_PontszamTartomany ==
    SzotarKesz => (szotari_pont[1] >= -Egyseg /\ szotari_pont[1] <= Egyseg)

\* reached: an intensified, not negated negative token, whose normalised
\* contribution -1.12 * 1.8 / sqrt(2) is below -1, scored as exactly -1.0
C4_Tanu ==
    /\ SzotarKesz
    /\ DocLen(doc) = 2
    /\ \E i \in 1..DocLen(doc) :
          /\ Lemma(doc, i) \in NEGATIV_SZAVAK
          /\ Szorzo(doc, i) = 14
          /\ ~_negalt_e(doc, i)
    /\ PontOsszeg(doc, DocLen(doc)) = -112
    /\ szotari_pont[1] = -Egyseg

\* the tokens of the view whose lemma is in one of the two lexicon sets
SzotariTokenek(d) ==
    {i \in 1..DocLen(d) : Lemma(d, i) \in POZITIV_SZAVAK \cup NEGATIV_SZAVAK}

HosszuDoc == 100    \* token counts 1..HosszuDoc for the normalisation alone

\* lines 384-386 on the sum a lone negated positive token leaves, for every
\* token count up to HosszuDoc and both multipliers
NegaltPozitivHosszan ==
    \A n \in 1..HosszuDoc : \A m \in {10, 14} :
        LET p == Normalizal(-5 * m, n)
        IN  p <= 0 /\ EgyetHuspacyKat(p) \in {"negativ", "semleges"}
                   /\ BatchHuspacyKat(p) \in {"negativ", "semleges"}

\* C16: when the only lexicon token of the token sequence is a positive
\* lemma under negation, it contributes -0.5 times the intensifier
\* multiplier, the score is <= 0 and the lexical category is negativ or
\* semleges, never pozitiv, whatever the token count.
C16_NegaltPozitiv ==
    /\ NegaltPozitivHosszan
    /\ SzotarKesz =>
        \A i \in 1..DocLen(doc) :
            (/\ SzotariTokenek(doc) = {i}
             /\ Lemma(doc, i) \in POZITIV_SZAVAK
             /\ _negalt_e(doc, i)) =>
                /\ Hozzajarulas(doc, i) = -5 * Szorzo(doc, i)
                /\ PontOsszeg(doc, DocLen(doc)) = -5 * Szorzo(doc, i)
                /\ szotari_pont[1] <= 0
                /\ EgyetHuspacyKat(szotari_pont[1]) \in {"negativ", "semleges"}
                /\ BatchHuspacyKat(szotari_pont[1]) \in {"negativ", "semleges"}

\* MaxToken tokens, the last one the only lexicon token, positive, negated
\* by a negator child and intensified; the score is negative (among
\* HosszuDoc tokens the same sum gives a score in the semleges band)
C16_Tanu ==
    /\ SzotarKesz /\ DocLen(doc) = MaxToken
    /\ SzotariTokenek(doc) = {MaxToken}
    /\ Lemma(doc, MaxToken) \in POZITIV_SZAVAK
    /\ \E c \in Children(doc, MaxToken) : Lemma(doc, c) \in NEGACIOK
    /\ Szorzo(doc, MaxToken) = 14
    /\ szotari_pont[1] < 0
    /\ EgyetHuspacyKat(szotari_pont[1]) = "negativ"
    /\ EgyetHuspacyKat(Normalizal(-50, HosszuDoc)) = "semleges"

Elojel(x) == IF x > 0 THEN 1 ELSE IF x < 0 THEN -1 ELSE 0

NegaltPozitivToken(d, i) == Lemma(d, i) \in POZITIV_SZAVAK /\ _negalt_e(d, i)

ValodiNegativToken(d, i) == Lemma(d, i) \in NEGATIV_SZAVAK /\ ~_negalt_e(d, i)

NegaltNegativToken(d, i) == Lemma(d, i) \in NEGATIV_SZAVAK /\ _negalt_e(d, i)

ValodiPozitivToken(d, i) == Lemma(d, i) \in POZITIV_SZAVAK /\ ~_negalt_e(d, i)

\* C17 as stated: for the same multiplier the contribution of a negated
\* positive token differs from the contribution of a genuine negative token
\* in sign and in magnitude, and the contribution of a negated negative
\* token differs from that of a genuine positive token.
C17_ElojelEsNagysag ==
    SzotarKesz =>
        \A i, j \in 1..DocLen(doc) :
            Szorzo(doc, i) = Szorzo(doc, j) =>
                /\ (NegaltPozitivToken(doc, i) /\ ValodiNegativToken(doc, j)) =>
                      /\ Elojel(Hozzajarulas(doc, i)) # Elojel(Hozzajarulas(doc, j))
                      /\ Abs(Hozzajarulas(doc, i)) # Abs(Hozzajarulas(doc, j))
                /\ (NegaltNegativToken(doc, i) /\ ValodiPozitivToken(doc, j)) =>
                      Hozzajarulas(doc, i) # Hozzajarulas(doc, j)

\* C17, amended: for the same multiplier the contribution of a negated
\* positive token (-0.5 x mult) has the sign of the contribution of a
\* genuine negative token (-0.8 x mult) and a smaller magnitude, and the
\* contribution of a negated negative token (+0.4 x mult) differs from that
\* of a genuine positive token (+0.7 x mult).
C17_Nagysag ==
    SzotarKesz =>
        \A i, j \in 1..DocLen(doc) :
            Szorzo(doc, i) = Szorzo(doc, j) =>
                /\ (NegaltPozitivToken(doc, i) /\ ValodiNegativToken(doc, j)) =>
                      /\ Hozzajarulas(doc, i) = -5 * Szorzo(doc, i)
                      /\ Hozzajarulas(doc, j) = -8 * Szorzo(doc, j)
                      /\ Elojel(Hozzajarulas(doc, i)) = Elojel(Hozzajarulas(doc, j))
                      /\ Abs(Hozzajarulas(doc, i)) < Abs(Hozzajarulas(doc, j))
                /\ (NegaltNegativToken(doc, i) /\ ValodiPozitivToken(doc, j)) =>
                      /\ Hozzajarulas(doc, i) = 4 * Szorzo(doc, i)
                      /\ Hozzajarulas(doc, j) = 7 * Szorzo(doc, j)
                      /\ Hozzajarulas(doc, i) # Hozzajarulas(doc, j)

\* a scored token view that holds a negated positive token and a genuine
\* negative token with the same multiplier, adding -0.5 and -0.8
C17_Tanu ==
    /\ SzotarKesz
    /\ \E i, j \in 1..DocLen(doc) :
          /\ NegaltPozitivToken(doc, i) /\ ValodiNegativToken(doc, j)
          /\ Szorzo(doc, i) = 10 /\ Szorzo(doc, j) = 10
          /\ Hozzajarulas(doc, i) = -50 /\ Hozzajarulas(doc, j) = -80
          /\ PontOsszeg(doc, DocLen(doc)) = -130

\* the multiplier of the table: 1.4 if a child or the head of the token has
\* a lemma in the intensifier set, 1.0 otherwise (in tenths)
TablaSzorzo(d, i) ==
    IF \/ \E c \in 1..DocLen(d) : c # i /\ d.head[c] = i /\ Lemma(d, c) \in FOKOZOK
       \/ Lemma(d, d.head[i]) \in FOKOZOK
    THEN 14 ELSE 10

\* the contribution table, in hundredths
TablaErtek(d, i) ==
    CASE ValodiPozitivToken(d, i) -> 7 * TablaSzorzo(d, i)
      [] NegaltPozitivToken(d, i) -> -5 * TablaSzorzo(d, i)
      [] ValodiNegativToken(d, i) -> -8 * TablaSzorzo(d, i)
      [] NegaltNegativToken(d, i) -> 4 * TablaSzorzo(d, i)
      [] OTHER -> 0

RECURSIVE TablaOsszeg(_, _)
\* every token of S counted once
TablaOsszeg(d, S) ==
    IF S = {} THEN 0
    ELSE LET i == CHOOSE j \in S : TRUE IN TablaErtek(d, i) + TablaOsszeg(d, S \ {i})

\* a lexicon in which a lemma is in both sets: the lemma is scored by the
\* positive branch alone, on every token view of one token
MindkettobenPozitiv ==
    \A w \in POZITIV_SZAVAK :
        LET d == [lemma |-> <<w>>, head |-> <<1>>, sent |-> <<1>>]
        IN  Pontoz(d, 1, POZITIV_SZAVAK, NEGATIV_SZAVAK \cup {w}) = 70

\* C20: each token adds to the sum exactly once and by the table: +0.7,
\* -0.5, -0.8, +0.4 times the multiplier for a positive, negated positive,
\* negative, negated negative lemma, the multiplier being 1.4 if a child or
\* the head of the token is an intensifier and 1.0 otherwise; a token in
\* neither set adds 0; a lemma in both sets is scored as positive only.
C20_HozzajarulasTabla ==
    /\ MindkettobenPozitiv
    /\ SzotarKesz =>
          /\ \A i \in 1..DocLen(doc) : Hozzajarulas(doc, i) = TablaErtek(doc, i)
          /\ \A i \in 1..DocLen(doc) :
                Lemma(doc, i) \notin POZITIV_SZAVAK \cup NEGATIV_SZAVAK =>
                    Hozzajarulas(doc, i) = 0
          /\ PontOsszeg(doc, DocLen(doc)) = TablaOsszeg(doc, 1..DocLen(doc))
          /\ szotari_pont[1] =
                Normalizal(TablaOsszeg(doc, 1..DocLen(doc)), Max2(TokenSzam(doc), 1))

\* a scored view of MaxToken tokens: a negated negative token intensified
\* through its head, a token of neither set, and a sum of +0.4 x 1.4
C20_Tanu ==
    /\ SzotarKesz /\ DocLen(doc) = MaxToken
    /\ \E i \in 1..DocLen(doc) :
          /\ NegaltNegativToken(doc, i)
          /\ Lemma(doc, doc.head[i]) \in FOKOZOK
          /\ Hozzajarulas(doc, i) = 56
    /\ \E i \in 1..DocLen(doc) : Lemma(doc, i) = "nem" /\ Hozzajarulas(doc, i) = 0
    /\ PontOsszeg(doc, DocLen(doc)) = 56
    /\ szotari_pont[1] > 0

\* C21: the normalisation divides by max(sqrt(n), 1) with n the number of
\* non-space tokens floored at 1, so the divisor is never below 1.0; a token
\* sequence that is empty, holds only space tokens, or holds no lexicon
\* token scores exactly 0.0.
C21_NevezoEsNulla ==
    /\ TokenSzam(doc) >= 1
    /\ Nevezo2(doc) >= 1
    /\ Nevezo2(doc) = Max2(Cardinality({i \in 1..DocLen(doc) : ~IsSpace(doc, i)}), 1)
    /\ (SzotarKesz /\ Kerdezettek(doc) = {}) => szotari_pont[1] = 0

\* a scored view of MaxToken space tokens: no token counts, the divisor is
\* the floor 1 and the score is 0.0
C21_Tanu ==
    /\ SzotarKesz /\ DocLen(doc) = MaxToken
    /\ \A i \in 1..DocLen(doc) : IsSpace(doc, i)
    /\ Nevezo2(doc) = 1
    /\ szotari_pont[1] = 0

(***************************************************************************)
(* Claims about _negalt_e (specification SpecNegalt)                       *)
(***************************************************************************)
NegaltKesz == negalt # <<>>

Negator(d, j) == Lemma(d, j) \in NEGACIOK

\* (1) a direct child of the token is a negator
GyerekNegator(d, i) == \E c \in 1..DocLen(d) : c # i /\ d.head[c] = i /\ Negator(d, c)

\* (2) the head of the token is a negator
FejNegator(d, i) == Negator(d, d.head[i])

\* (3) one of the up to 5 tokens right before the token, in its sentence,
\* is a negator
ElozoNegator(d, i) ==
    \E p \in 1..5 : i - p >= 1 /\ Negator(d, i - p) /\ d.sent[i - p] = d.sent[i]

\* C18: _negalt_e returns true exactly when a direct child of the token is
\* a negator, or its head is a negator, or one of the up to 5 tokens right
\* before it in the same sentence is a negator; a negator exactly 5
\* positions before the token negates it, a negator 6 or more positions
\* before it with no dependency link to it does not.
C18_NegacioFeltetelei ==
    NegaltKesz =>
        \A i \in Kerdezettek(doc) :
            /\ negalt[1][i] <=>
                  (GyerekNegator(doc, i) \/ FejNegator(doc, i) \/ ElozoNegator(doc, i))
            /\ (i >= 6 /\ Negator(doc, i - 5) /\ doc.sent[i - 5] = doc.sent[i]) =>
                  negalt[1][i]
            /\ (/\ ~GyerekNegator(doc, i) /\ ~FejNegator(doc, i)
                /\ \A j \in 1..DocLen(doc) : Negator(doc, j) => (j <= i - 6 \/ j > i)) =>
                  ~negalt[1][i]

\* one sentence of seven tokens parsed as a chain, the only negator in the
\* first place: the token five places after it is negated, the token six
\* places after it is not, and neither has a dependency link to it
C18_Tanu ==
    /\ NegaltKesz /\ DocLen(doc) >= 7
    /\ \A j \in 1..DocLen(doc) : Negator(doc, j) <=> j = 1
    /\ doc.sent[7] = 1
    /\ {6, 7} \subseteq Kerdezettek(doc)
    /\ \A i \in {6, 7} : ~GyerekNegator(doc, i) /\ ~FejNegator(doc, i)
    /\ negalt[1][6] /\ ~negalt[1][7]

\* the tokens of sentence m alone, as a token view of their own
Mondat(d, m) ==
    LET a == MondatEleje(d, m)
        b == MondatVege(d, m)
    IN  [lemma |-> [k \in 1..(b - a + 1) |-> d.lemma[a + k - 1]],
         head  |-> [k \in 1..(b - a + 1) |-> d.head[a + k - 1] - a + 1],
         sent  |-> [k \in 1..(b - a + 1) |-> 1]]

\* C19: negation never crosses a sentence boundary: a token with no negator
\* in its own sentence is not negated, also when a negator of another
\* sentence lies within the 5 positions before it, and what _negalt_e
\* returns for a token is what it returns for it in its sentence alone.
C19_MondatHatar ==
    NegaltKesz =>
        \A i \in Kerdezettek(doc) :
            /\ (\A j \in 1..DocLen(doc) : Negator(doc, j) => doc.sent[j] # doc.sent[i]) =>
                  ~negalt[1][i]
            /\ negalt[1][i] =
                  _negalt_e(Mondat(doc, doc.sent[i]), i - MondatEleje(doc, doc.sent[i]) + 1)

\* two sentences: the first ends in a negator that negates a token of the
\* first sentence; the token right after it opens the second sentence, which
\* holds no negator, and is not negated
C19_Tanu ==
    /\ NegaltKesz
    /\ \E i \in Kerdezettek(doc) :
          /\ i >= 3 /\ doc.sent[i] = 2 /\ doc.sent[i - 1] = 1
          /\ Negator(doc, i - 1)
          /\ \A j \in 1..DocLen(doc) : doc.sent[j] = 2 => ~Negator(doc, j)
          /\ ~negalt[1][i]
          /\ (i - 2) \in Kerdezettek(doc) /\ negalt[1][i - 2]

(***************************************************************************)
(* Claims about _feldolgoz_nytk_eredmeny (specification SpecNytk)          *)
(***************************************************************************)
NytkKesz == nytk_eredmeny # <<>>

Egysegben(x) == x >= 0 /\ x <= Egyseg

\* C5: for a payload whose scores are each in [0, 1] and sum to at most 1,
\* whatever its shape, the confidence _feldolgoz_nytk_eredmeny returns is in
\* [0.0, 1.0], and so is the hunbert_confidence that elemez_egyet and
\* elemzes_batch put into the result of the text.
C5_ConfidenciaTartomany ==
    (NytkKesz /\ SzabalyosPayload(raw)) =>
        /\ ~nytk_eredmeny[1].jel.hiba
        /\ Egysegben(nytk_eredmeny[1].jel.conf)
        /\ Egysegben(nytk_eredmeny[1].egyet)
        /\ Egysegben(nytk_eredmeny[1].batch)

\* a 5-class payload of total mass 1 whose two positive classes win together
C5_Tanu ==
    /\ NytkKesz /\ SzabalyosPayload(raw)
    /\ Len(raw.elemek) = 5 /\ PontOsszegzes(raw.elemek) = Egyseg
    /\ nytk_eredmeny[1].jel = Jel("pozitiv", Egyseg)
    /\ raw.elemek[4].score > 0 /\ raw.elemek[5].score > 0
    /\ nytk_eredmeny[1].batch = Egyseg

\* every item of the payload has its two keys
Teljes(r) == \A i \in 1..Len(r.elemek) : r.elemek[i].kulcsok = {"label", "score"}

\* the mass of the labels that hold a marker of some bucket
ExplicitTomeg(r) ==
    JelTomeg(r.elemek, POZ_JELEK) + JelTomeg(r.elemek, NEG_JELEK)
        + JelTomeg(r.elemek, NEU_JELEK)

\* the mass of the bucket that wins in the bucketing the call uses: the
\* explicit one above 0.05, the ordinal one otherwise (0 with no bucket)
NyeroTomeg(r) ==
    IF ExplicitTomeg(r) > 500
    THEN Max2(JelTomeg(r.elemek, POZ_JELEK),
              Max2(JelTomeg(r.elemek, NEG_JELEK), JelTomeg(r.elemek, NEU_JELEK)))
    ELSE IF Numeric(r.elemek).kulcsok = {} THEN 0
    ELSE LET v == OrdinalisVodrok(r.elemek) IN Max2(v.poz, Max2(v.neg, v.neu))

\* C22: _feldolgoz_nytk_eredmeny returns exactly (semleges, 0.5) when the
\* payload is absent or empty, and when after bucketing the winning bucket
\* has mass 0.
C22_AlapJel ==
    NytkKesz =>
        /\ (raw.alak = "None" \/ Len(raw.elemek) = 0) => nytk_eredmeny[1].jel = Alap
        /\ (raw.alak # "None" /\ Teljes(raw) /\ NyeroTomeg(raw) = 0) =>
              nytk_eredmeny[1].jel = Alap

\* a payload of three or more ordinal classes, each with score 0: the
\* buckets are filled, none has mass, and the call returned (semleges, 0.5)
C22_Tanu ==
    /\ NytkKesz /\ raw.alak = "list" /\ Len(raw.elemek) >= 3 /\ Teljes(raw)
    /\ Cardinality(Numeric(raw.elemek).kulcsok) = Len(raw.elemek)
    /\ NyeroTomeg(raw) = 0
    /\ nytk_eredmeny[1].jel = Alap

\* item i carries the score of its label: no later item has the same label
\* in another or the same case
CimkeErteke(elemek, i) ==
    \A m \in (i + 1)..Len(elemek) : UpperTabla[elemek[m].label] # UpperTabla[elemek[i].label]

RECURSIVE VodorTomeg(_, _, _)
\* the scores of the first k items summed over the labels that hold,
\* whatever the case, one of the markers
VodorTomeg(elemek, jelek, k) ==
    IF k = 0 THEN 0
    ELSE VodorTomeg(elemek, jelek, k - 1)
         + (IF /\ CimkeErteke(elemek, k)
               /\ \E j \in jelek : Tartalmaz(UpperTabla[elemek[k].label], j)
            THEN elemek[k].score ELSE 0)

\* the bucket with the highest mass, a tie going to the positive bucket
\* first, then to the negative one
LegnagyobbVodor(p, n, u) ==
    IF p >= n /\ p >= u THEN Jel("pozitiv", p)
    ELSE IF n >= u THEN Jel("negativ", n)
    ELSE Jel("semleges", u)

OrdinalisSor(r, n) ==
    /\ r.alak = "list" /\ Len(r.elemek) = n /\ Teljes(r)
    /\ \A k \in 1..n : r.elemek[k].label = "LABEL_" \o ToString(k - 1)

\* the score the payload gives to index k
Index(r, k) == r.elemek[k + 1].score

\* the three masses the claim gives to 3 and to 5 classes
OsztalyTomeg(r) ==
    IF Len(r.elemek) = 3
    THEN [neg |-> Index(r, 0), neu |-> Index(r, 1), poz |-> Index(r, 2)]
    ELSE [neg |-> Index(r, 0) + Index(r, 1), neu |-> Index(r, 2),
          poz |-> Index(r, 3) + Index(r, 4)]

\* C24: an ordinal payload of 3 classes maps index 0 to negative, 1 to
\* neutral and 2 to positive, one of 5 classes maps 0 and 1 to negative, 2 to
\* neutral and 3 and 4 to positive; the bucket with the highest summed score
\* is returned with that mass as the confidence, and a 5-class payload whose
\* mass sits at index 4 is judged positive with that mass.
C24_OsztalySzam ==
    (NytkKesz /\ (OrdinalisSor(raw, 3) \/ OrdinalisSor(raw, 5))) =>
        LET t    == OsztalyTomeg(raw)
            best == Max2(t.poz, Max2(t.neg, t.neu))
            jel  == nytk_eredmeny[1].jel
        IN  /\ best > 0 =>
                /\ jel.conf = best
                /\ jel.kat = "pozitiv" => t.poz = best
                /\ jel.kat = "negativ" => t.neg = best
                /\ jel.kat = "semleges" => t.neu = best
            /\ (t.poz > t.neg /\ t.poz > t.neu) => jel = Jel("pozitiv", t.poz)
            /\ (t.neg > t.poz /\ t.neg > t.neu) => jel = Jel("negativ", t.neg)
            /\ (t.neu > t.poz /\ t.neu > t.neg) => jel = Jel("semleges", t.neu)

\* five classes with the whole mass at index 4: positive with that mass
C24_Tanu ==
    /\ NytkKesz /\ OrdinalisSor(raw, 5)
    /\ Index(raw, 4) = Egyseg /\ \A k \in 0..3 : Index(raw, k) = 0
    /\ nytk_eredmeny[1].jel = Jel("pozitiv", Egyseg)

\* the ordinal payload has a class count other than 3 and 5
HarmadolvaKesz ==
    /\ NytkKesz /\ raw.alak = "list" /\ Len(raw.elemek) > 0 /\ Teljes(raw)
    /\ ExplicitTomeg(raw) <= Egyseg \div 20
    /\ Cardinality(Numeric(raw.elemek).kulcsok) \notin {0, 3, 5}

\* the number of buckets the split into thirds puts index k in
VodorSzam(kulcsok, k) ==
    Cardinality({v \in {"neg", "neu", "poz"} :
        \/ v = "neg" /\ k \in HarmadNeg(kulcsok)
        \/ v = "neu" /\ k \in HarmadNeu(kulcsok)
        \/ v = "poz" /\ k \in HarmadPoz(kulcsok)})

\* C29: for an ordinal payload whose class count N is neither 3 nor 5 the
\* split into thirds puts every index in exactly one bucket, so that the
\* three masses add up to the total mass of the payload, for every N >= 1.
C29_HarmadFelosztas ==
    HarmadolvaKesz =>
        LET num == Numeric(raw.elemek)
            v   == OrdinalisVodrok(raw.elemek)
        IN  /\ \A k \in num.kulcsok : VodorSzam(num.kulcsok, k) = 1
            /\ v.neg + v.neu + v.poz = Osszeg(num.ertek, num.kulcsok)

(***************************************************************************)
(* Claims about elemzes_batch (specification Spec)                         *)
(***************************************************************************)
\* the input text a yielded dict names in eredeti_szoveg
EredmenySzovege(e, szoveg) ==
    IF e.kategoria = "hiba" THEN e.eredeti_szoveg = Eleje(szoveg, 200)
    ELSE e.eredeti_szoveg = TisztitTabla[szoveg]

\* C7: elemzes_batch yields exactly one result per input text, in input
\* order: the k-th yielded result is the one of the k-th text, whatever the
\* input length, also when parsing, classification or scoring of rows fails.
C7_EgyEredmenySoronkent ==
    /\ Len(eredmenyek) <= Len(szovegek)
    /\ pc = "osszeallit" => Len(eredmenyek) = doc_idx
    /\ pc = "kesz" => Len(eredmenyek) = Len(szovegek)
    /\ \A k \in 1..Len(eredmenyek) : EredmenySzovege(eredmenyek[k], szovegek[k])

\* a finished run of MaxSor rows with a row the parser rejected, a row whose
\* assembly raised and a classifier call that raised
C7_Tanu ==
    /\ pc = "kesz" /\ sentiment /\ Len(eredmenyek) = MaxSor
    /\ \E k \in 1..Len(szovegek) : NlpHibas(tisztitott[k])
    /\ \E k \in 1..Len(szovegek) : eredmenyek[k].kategoria = "hiba"

EgyetTabla == [t \in Korpusz, s \in BOOLEAN |-> elemez_egyet(t, s)]

\* C8: the dict elemzes_batch yields for a row equals, field by field, the
\* dict elemez_egyet returns for that row alone, whatever the other rows
\* are and for every chunk size of one row or more.
C8_BatchIzolacio ==
    batch_meret >= 1 =>
        \A k \in 1..Len(eredmenyek) :
            ~EgyetKivetel(szovegek[k]) => eredmenyek[k] = EgyetTabla[szovegek[k], sentiment]

\* the ExternalSignal that is the interpretation of the classifier's output
\* for the one text (the default when there is none)
SajatJel(tiszta) == ModellJel(Osztalyozo(Eleje(tiszta, 512)))

\* C9: the signal elemzes_batch uses for the row at index i is the
\* interpretation of the classifier's output for the text at index i,
\* for every chunk size of one row or more, also when a chunk call raises
\* or hands back no result for some text.
C9_IndexHuseg ==
    (sentiment /\ batch_meret >= 1 /\ pc \in {"osszeallit", "kesz"}) =>
        \A k \in 1..Len(tisztitott) : CacheGet(nytk_sor_cache, k - 1) = SajatJel(tisztitott[k])

\* C10 as stated: for a fixed input and a deterministic classifier the
\* sequence of results is the same for any value of batch_meret.
C10_MeretFuggetlen ==
    (pc = "kesz" /\ elozo.fut) => eredmenyek = elozo.eredmenyek

\* C10, amended: for a fixed input and a deterministic classifier the
\* sequence of results is the same for any positive value of batch_meret.
C10_PozitivMeret ==
    (pc = "kesz" /\ elozo.fut /\ batch_meret >= 1 /\ elozo.meret >= 1) =>
        eredmenyek = elozo.eredmenyek

\* two finished runs of the same MaxSor rows, one row per chunk and all rows
\* in one chunk, with a classifier call that raised in both
C10_Tanu ==
    /\ pc = "kesz" /\ elozo.fut /\ sentiment
    /\ Len(szovegek) = MaxSor
    /\ elozo.meret = 1 /\ batch_meret = MaxSor
    /\ ChunkHibas(tisztitott)
    /\ \E k \in 1..Len(eredmenyek) : eredmenyek[k].hunbert_kategoria = "pozitiv"
    /\ eredmenyek = elozo.eredmenyek

\* the classifier fails for the text: the call raises, or it hands back no
\* result for it
OsztalyozoHibas(tiszta) == Osztalyozo(Eleje(tiszta, 512)).alak \in {"kivetel", "nincs"}

\* C11: when the classifier fails for a row of the batch, that row's signal
\* is the default (semleges, 0.5) and every other row's signal is the
\* interpretation of the classifier's output for its own text, for every
\* chunk size of one row or more.
C11_HibasDokumentum ==
    (/\ sentiment /\ batch_meret >= 1 /\ pc \in {"osszeallit", "kesz"}
     /\ \E j \in 1..Len(tisztitott) : OsztalyozoHibas(tisztitott[j])) =>
        \A k \in 1..Len(tisztitott) :
            CacheGet(nytk_sor_cache, k - 1) =
                IF OsztalyozoHibas(tisztitott[k]) THEN Alap ELSE SajatJel(tisztitott[k])

\* the classifier is unavailable for the whole run: it failed to load
\* (self.sentiment is None), or it fails for every text of the input
OsztalyozoElerhetetlen ==
    ~sentiment \/ \A k \in 1..Len(szovegek) : OsztalyozoHibas(TisztitTabla[szovegek[k]])

\* C12: when the classifier is unavailable for the whole run, the run is
\* not aborted, every yielded result carries the external category semleges
\* with confidence 0.5, and its hybrid category is its lexical category.
C12_CsakSzotar ==
    OsztalyozoElerhetetlen =>
        /\ pc = "kesz" => Len(eredmenyek) = Len(szovegek)
        /\ \A k \in 1..Len(eredmenyek) :
              /\ eredmenyek[k].hunbert_kategoria = "semleges"
              /\ eredmenyek[k].hunbert_confidence = Egyseg \div 2
              /\ eredmenyek[k].hibrid_kategoria = eredmenyek[k].kategoria

\* the parsing of the row fails (729-735), or putting its result together
\* raises (768-805)
DokumentumHibas(tiszta) == NlpHibas(tiszta) \/ FeldolgozasHiba(tiszta) # ""

\* C13: the result of a row whose parsing or processing failed carries the
\* default signals (lexical score 0.0, external semleges with confidence
\* 0.5), a category that is the error marker and none of the three sentiment
\* categories, and a justification that holds the error description cut to
\* 100 characters; the rows after it are still processed.
C13_HibaEredmeny ==
    /\ pc = "kesz" => Len(eredmenyek) = Len(szovegek)
    /\ \A k \in 1..Len(eredmenyek) :
          DokumentumHibas(tisztitott[k]) =>
              LET e == eredmenyek[k]
              IN  /\ e.pontszam = 0
                  /\ e.hunbert_kategoria = "semleges"
                  /\ e.hunbert_confidence = Egyseg \div 2
                  /\ "hiba" \in {e.kategoria, e.hibrid_kategoria}
                  /\ "hiba" \notin Kategoriak
                  /\ Len(e.hibrid_megalapozas) = 2
                  /\ e.hibrid_megalapozas[1] = "Hiba: "
                  /\ Len(e.hibrid_megalapozas[2]) <= 100

\* the payload matches no recognised shape: an item lacks "label" or
\* "score", or no label holds a sentiment marker or is an ordinal index
Formatlan(r) ==
    /\ r.alak \in {"list", "dict"} /\ Len(r.elemek) > 0
    /\ \/ \E i \in 1..Len(r.elemek) : r.elemek[i].kulcsok # {"label", "score"}
       \/ \A i \in 1..Len(r.elemek) :
             /\ \A j \in POZ_JELEK \cup NEG_JELEK \cup NEU_JELEK :
                   ~Tartalmaz(UpperTabla[r.elemek[i].label], j)
             /\ ~EgeszSzoveg(SzamCimkeTabla[r.elemek[i].label])

FormatlanPayloadok == {r \in Payloadok : Formatlan(r)}

\* the signal of a text whose payload is r: through _modell_elemez
\* (elemez_egyet), and through the loop of elemzes_batch with its fallback
EgyetJel(r) == ModellJel(r)

BatchJel(r) ==
    LET jel == _feldolgoz_nytk_eredmeny(r)
    IN  IF jel.hiba THEN ModellJel(r) ELSE jel

FormatlanSor(tiszta) == Formatlan(Osztalyozo(Eleje(tiszta, 512)))

\* every malformed payload of the model is recovered as the default signal
\* on both entry points
FormatlanAlap == \A r \in FormatlanPayloadok : EgyetJel(r) = Alap /\ BatchJel(r) = Alap

\* C14: a payload that matches no recognised shape is recovered as
\* (semleges, 0.5) by elemez_egyet and by elemzes_batch, never raised to the
\* caller; in a batch with such a payload for a row, that row gets the
\* default and every other row the signal of its own classifier output.
C14_FormatlanPayload ==
    /\ FormatlanAlap
    /\ \A t \in Korpusz :
          (FormatlanSor(TisztitTabla[t]) /\ ~EgyetKivetel(t)) =>
              /\ EgyetTabla[t, TRUE].hunbert_kategoria = "semleges"
              /\ EgyetTabla[t, TRUE].hunbert_confidence = Egyseg \div 2
    /\ (/\ sentiment /\ batch_meret >= 1 /\ pc \in {"osszeallit", "kesz"}
        /\ \E j \in 1..Len(tisztitott) : FormatlanSor(tisztitott[j])) =>
          /\ pc = "kesz" => Len(eredmenyek) = Len(szovegek)
          /\ \A k \in 1..Len(tisztitott) :
                CacheGet(nytk_sor_cache, k - 1) =
                    IF FormatlanSor(tisztitott[k]) THEN Alap ELSE SajatJel(tisztitott[k])

\* a finished run of two rows in one chunk: the first row's payload is
\* malformed, the second row has its own positive signal in its result
C14_Tanu ==
    /\ pc = "kesz" /\ sentiment /\ batch_meret = 2 /\ Len(szovegek) = 2
    /\ FormatlanSor(tisztitott[1]) /\ ~FormatlanSor(tisztitott[2])
    /\ eredmenyek[1].hunbert_kategoria = "semleges"
    /\ eredmenyek[1].hunbert_confidence = Egyseg \div 2
    /\ eredmenyek[2].hunbert_kategoria = "pozitiv"
    /\ FormatlanPayloadok # {}

\* C15: nothing written while one batch is processed is kept and used for a
\* later one: a run of elemzes_batch in a process that already handled a
\* batch (and so has the class count cached in _nytk_n_classes) yields the
\* results of the run in the fresh process on the same input and chunk
\* size, and every run starts with an empty index -> signal cache.
C15_NemMarad ==
    /\ (pc = "kesz" /\ elozo.fut /\ batch_meret = elozo.meret) =>
            eredmenyek = elozo.eredmenyek
    /\ pc = "indul" =>
            nytk_sor_cache = <<>> /\ raw_batch = <<>> /\ eredmenyek = <<>>

\* the second run of MaxSor rows in one chunk is finished; the first run
\* left a class count in _nytk_n_classes, and a result holds a signal read
\* from an ordinal payload
C15_Tanu ==
    /\ pc = "kesz" /\ elozo.fut /\ sentiment
    /\ Len(szovegek) = MaxSor /\ batch_meret = MaxSor /\ elozo.meret = MaxSor
    /\ _nytk_n_classes # 0
    /\ \E k \in 1..Len(eredmenyek) : eredmenyek[k].hunbert_kategoria = "pozitiv"
    /\ eredmenyek = elozo.eredmenyek

\* the scores of the sentences of a parse, each from its own tokens
MondatPontTabla ==
    [d \in KorpuszDocok |-> [m \in 1..MondatokSzama(d) |-> _szotari_pontszam(AsDoc(d, m))]]

MondatPontOsszeg(d) == Osszeg(MondatPontTabla[d], 1..MondatokSzama(d))

\* the lexical fields and the fusion of the result e are those of the score
\* of the whole parse d and of the signal jel of the whole row
SorSzintu(e, d, jel) ==
    LET pont == SzotariPontTabla[d]
        h    == _hibrid_kategoria(pont, jel.kat, jel.conf)
    IN  /\ e.pontszam = Round4(pont)
        /\ e.kategoria = LexikaiKategoria(pont)
        /\ e.hunbert_kategoria = jel.kat
        /\ e.hibrid_kategoria = h.kat
        /\ e.hibrid_megalapozas = h.megalapozas

\* the same for the dict elemez_egyet returns for every text of the corpus
EgyetSorSzintu ==
    \A t \in Korpusz, s \in BOOLEAN :
        ~EgyetKivetel(t) =>
            SorSzintu(EgyetTabla[t, s], DocTabla[t], _modell_elemez(TisztitTabla[t], s))

\* C26: in elemez_egyet and in elemzes_batch the lexical score behind the
\* lexical category and the fusion is the scorer run on the token view of
\* the whole document, not a sum or a mean of the scores of its sentences,
\* and the fusion takes the external signal of the whole row only.
C26_DokumentumSzint ==
    /\ \A k \in 1..Len(eredmenyek) :
            eredmenyek[k].kategoria # "hiba" =>
                SorSzintu(eredmenyek[k], docs[k], CacheGet(nytk_sor_cache, k - 1))
    /\ EgyetSorSzintu

\* reached: the result of a row of two sentences whose score is neither the
\* sum nor the mean of the scores of the two sentences
C26_Tanu ==
    \E k \in 1..Len(eredmenyek) :
        /\ eredmenyek[k].kategoria # "hiba"
        /\ MondatokSzama(docs[k]) = 2
        /\ eredmenyek[k].pontszam = Round4(SzotariPontTabla[docs[k]])
        /\ eredmenyek[k].pontszam # Round4(MondatPontOsszeg(docs[k]))
        /\ 2 * SzotariPontTabla[docs[k]] # MondatPontOsszeg(docs[k])
        /\ eredmenyek[k].kategoria # "semleges"
        /\ EgyetTabla[szovegek[k], sentiment].pontszam = eredmenyek[k].pontszam

\* the entry of sentence m of the parse d with the given prefix: the tag of
\* the sentence's own score and the score with sign and two decimals
Bejegyzes(elotag, d, m) ==
    LET pont == MondatPontTabla[d][m]
    IN  elotag \o ToString(m) \o ":" \o SubSeq(LexikaiKategoria(pont), 1, 3)
            \o "(" \o TizedesElojel(pont, 2) \o ")"

\* one entry for each sentence of the parse, joined by " | "
MindenMondat(elotag, d) ==
    Join([m \in 1..MondatokSzama(d) |-> Bejegyzes(elotag, d, m)], " | ")

MindenMondatTabla == [d \in KorpuszDocok |-> MindenMondat("S", d)]

\* C27: the per-sentence summary of a result is the entries
\* S{n}:{cat}({score:+.2f}) joined by " | ", one for each sentence of the
\* row, cat in {poz, neg, sem} by the threshold 0.10 on the sentence's own
\* score, which is computed from the sentence's own tokens only.
C27_MondatOsszefoglalo ==
    \A k \in 1..Len(eredmenyek) :
        eredmenyek[k].kategoria # "hiba" =>
            eredmenyek[k].mondatszintu_sentiment = MindenMondatTabla[docs[k]]

(***************************************************************************)
(* Claims about _aggregalt_sentiment (specification SpecAggr)              *)
(***************************************************************************)
AggrKesz == aggregalt # <<>>

\* the total weight, the weighted score and the weighted confidence of a
\* category, as sums over the sentences
OsszesSzo == Osszeg([i \in 1..Len(mondatok) |-> mondatok[i].szavak], 1..Len(mondatok))

SulyozottPont ==
    Osszeg([i \in 1..Len(mondatok) |-> mondatok[i].huspacy_pont * mondatok[i].szavak],
           1..Len(mondatok))

SulyozottConf(kat) ==
    LET I == {i \in 1..Len(mondatok) : mondatok[i].modell_kat = kat}
    IN  Osszeg([i \in I |-> mondatok[i].modell_conf * mondatok[i].szavak], I)

\* the category kat is met before the category masik in sentence order
Elobb(kat, masik) ==
    \E i \in 1..Len(mondatok) :
        /\ mondatok[i].modell_kat = kat
        /\ \A j \in 1..i : mondatok[j].modell_kat # masik

\* C25: over a non-empty list of sentence judgments weighted by their word
\* counts the score is sum(score x weight) / sum(weight), the category is
\* the one with the highest sum(confidence x weight), a tie going to the
\* category met first in sentence order, and the confidence is that
\* category's weighted confidence over the total weight, capped at 1.0; for
\* an empty list the result is (0.0, neutral, 0.5).
C25_Aggregalt ==
    AggrKesz =>
        LET e == aggregalt[1] IN
        /\ Len(mondatok) = 0 =>
                /\ e.pont.sz = 0 /\ e.kat = "semleges"
                /\ 2 * e.conf.sz = Egyseg * e.conf.nev
        /\ (Len(mondatok) > 0 /\ OsszesSzo > 0) =>
                /\ e.pont.nev > 0 /\ e.conf.nev > 0
                /\ e.pont.sz * OsszesSzo = SulyozottPont * e.pont.nev
                /\ \E i \in 1..Len(mondatok) : mondatok[i].modell_kat = e.kat
                /\ \A k \in Kategoriak \ {e.kat} :
                        (\E i \in 1..Len(mondatok) : mondatok[i].modell_kat = k) =>
                            \/ SulyozottConf(e.kat) > SulyozottConf(k)
                            \/ SulyozottConf(e.kat) = SulyozottConf(k) /\ Elobb(e.kat, k)
                /\ IF SulyozottConf(e.kat) >= Egyseg * OsszesSzo
                   THEN e.conf.sz = Egyseg * e.conf.nev
                   ELSE e.conf.sz * OsszesSzo = SulyozottConf(e.kat) * e.conf.nev

\* reached: two sentences of different length, score and category whose
\* weighted confidences tie; the first category met is returned, the score
\* is the weighted mean (0.0 here) and the confidence 1.0 / 3
C25_Tanu ==
    /\ AggrKesz /\ Len(mondatok) = 2
    /\ mondatok[1] = [szavak |-> 2, huspacy_pont |-> -(Egyseg \div 2),
                      modell_kat |-> "negativ", modell_conf |-> Egyseg \div 2]
    /\ mondatok[2] = [szavak |-> 1, huspacy_pont |-> Egyseg,
                      modell_kat |-> "pozitiv", modell_conf |-> Egyseg]
    /\ aggregalt[1] = [pont |-> Tort(0, 3), kat |-> "negativ", conf |-> Tort(Egyseg, 3)]

(***************************************************************************)
(* Claims about SentimentGui (specification SpecGui)                       *)
(***************************************************************************)
\* the threads that are still inside _run_analysis
Elok == {k \in 1..Len(szalak) : szalak[k] # "vege"}

\* C30: at most one thread of _run_analysis exists at any time, and when
\* none exists after a run, is_running is false and the run and the select
\* button are enabled again (the select button unless the dependency check
\* has switched it off).
C30_EgySzal ==
    /\ Cardinality(Elok) <= 1
    /\ (Elok = {} /\ szalak # <<>> /\ fuggoseg # "hiba") =>
            /\ ~is_running
            /\ btn_run = "normal"
            /\ btn_select = "normal"

(***************************************************************************)
(* The specifications                                                      *)
(***************************************************************************)
HibridNext == HibridHivas /\ UNCHANGED <<szotarVars, nytkVars, _nytk_n_classes, batchVars, aggrVars, guiVars>>

HibridInit == HibridBemenet /\ SzotarNyugvo /\ NytkNyugvo /\ _nytk_n_classes = 0 /\ BatchNyugvo /\ AggrNyugvo /\ GuiNyugvo

SpecHibrid == HibridInit /\ [][HibridNext]_vars

SzotarNext == SzotarHivas /\ UNCHANGED <<hibridVars, nytkVars, _nytk_n_classes, batchVars, aggrVars, guiVars>>

SzotarInit == SzotarBemenet /\ HibridNyugvo /\ NytkNyugvo /\ _nytk_n_classes = 0 /\ BatchNyugvo /\ AggrNyugvo /\ GuiNyugvo

SpecSzotar == SzotarInit /\ [][SzotarNext]_vars

NegaltNext == NegaltHivas /\ UNCHANGED <<hibridVars, nytkVars, _nytk_n_classes, batchVars, aggrVars, guiVars>>

NegaltInit == NegaltBemenet /\ HibridNyugvo /\ NytkNyugvo /\ _nytk_n_classes = 0 /\ BatchNyugvo /\ AggrNyugvo /\ GuiNyugvo

SpecNegalt == NegaltInit /\ [][NegaltNext]_vars

NytkNext == NytkHivas /\ UNCHANGED <<hibridVars, szotarVars, batchVars, aggrVars, guiVars>>

NytkInit == NytkBemenet /\ HibridNyugvo /\ SzotarNyugvo /\ BatchNyugvo /\ AggrNyugvo /\ GuiNyugvo

SpecNytk == NytkInit /\ [][NytkNext]_vars

AggrNext == AggrHivas /\ UNCHANGED <<hibridVars, szotarVars, nytkVars, _nytk_n_classes, batchVars, guiVars>>

AggrInit == AggrBemenet /\ HibridNyugvo /\ SzotarNyugvo /\ NytkNyugvo /\ _nytk_n_classes = 0 /\ BatchNyugvo /\ GuiNyugvo

SpecAggr == AggrInit /\ [][AggrNext]_vars

GuiNext ==
    /\ \/ FuggosegEllenorzes
       \/ SelectFile
       \/ StartThread
       \/ \E k \in 1..Len(szalak) : Halad(k)
       \/ \E k \in 1..Len(szalak) : Kivetelt(k)
       \/ \E k \in 1..Len(szalak) : CleanupProgress(k)
       \/ \E k \in 1..Len(szalak) : IsRunningFalse(k)
       \/ \E k \in 1..Len(szalak) : BtnRunNormal(k)
       \/ \E k \in 1..Len(szalak) : BtnSelectNormal(k)
    /\ UNCHANGED <<hibridVars, szotarVars, nytkVars, _nytk_n_classes, batchVars, aggrVars>>

GuiInit == GuiIndul /\ HibridNyugvo /\ SzotarNyugvo /\ NytkNyugvo /\ _nytk_n_classes = 0 /\ BatchNyugvo /\ AggrNyugvo

SpecGui == GuiInit /\ [][GuiNext]_vars

Init == BatchBemenet /\ HibridNyugvo /\ SzotarNyugvo /\ NytkNyugvo /\ AggrNyugvo /\ GuiNyugvo

Next ==
    /\ \/ UresBemenet
       \/ NlpPipe
       \/ NlpPipeHiba
       \/ NytkNincs
       \/ NytkRangeHiba
       \/ NytkChunk
       \/ NytkFeldolgoz
       \/ NytkFallback
       \/ Osszeallit
       \/ OsszeallitHiba
       \/ Vege
       \/ Ujra
    /\ UNCHANGED <<hibridVars, szotarVars, nytkVars, aggrVars, guiVars>>

Spec == Init /\ [][Next]_vars

=============================================================================
